---- MODULE Spec2Model ----
(***************************************************************************)
(* Admission and resource allocation of the FastPing proxy test service.   *)
(*                                                                         *)
(*   IPWhitelistManager        src/fastping-it/proxy-test-app.py           *)
(*   CustomerResourceManager   src/fastping-it/customer_resource_manager.py*)
(*   UltimateCustomerManager   src/fastping-it/ultimate_fastping_app.py    *)
(*                                                                         *)
(* Time is counted in seconds of the server's naive local clock (what      *)
(* datetime.now() returns).  A table is a function or a sequence of rows;  *)
(* an optional row is a sequence of length 0 or 1.  SQL NULL for a port is *)
(* written 0 (no pool entry has port 0).                                   *)
(***************************************************************************)
EXTENDS Integers, Sequences, FiniteSets, TLC

VARIABLES
    app,                  \* which application runs: "proxy" or "ultimate"
    DATABASE_URL,         \* the store of the ultimate application
    tz,                   \* offset of the local clock from UTC, seconds
    rate_limits,          \* table rate_limits, keyed by ip_address
    redis_rate,           \* cache keys rate_limit:<ip>
    usage_logs,           \* table usage_logs, in insertion order
    resp,                 \* what the last request was answered
    checked,              \* the last call of check_rate_limit and its result
    called,               \* per address: the calls of check_rate_limit that
                          \* returned in the running 60 seconds, and their start
    now,                  \* datetime.now(), seconds
    REDIS_AVAILABLE,      \* module constant set at import by redis_client.ping()
    redisUp,              \* the cache server answers
    dbUp,                 \* whitelist.db can be opened and written
    ip_whitelist,         \* table ip_whitelist, keyed by its UNIQUE ip_address
    redis_whitelist,      \* cache keys whitelist:<ip>
    removed_at,           \* per address: when remove_ip deactivated its row,
                          \* NoRemoval while the row is as add_ip wrote it
    resource_pools,       \* table resource_pools, in insertion order
    resource_allocations, \* table resource_allocations, in insertion order
    customers,            \* table customers
    managers,             \* number of CustomerResourceManager objects constructed
    lock,                 \* self.lock of each manager: 0 or the holding thread
    dbLock,               \* write lock of customer_resources.db: 0 or the holder
    next_uuid,            \* uuid4() values handed out so far
    pc,                   \* position of each thread
    loc,                  \* locals of the call each thread is in
    ret,                  \* what the call that returned last returned
    ticks,                \* clock advances so far
    api_keys,             \* table api_keys, keyed by its UNIQUE api_key
    api_rate_limits,      \* table api_rate_limits, keyed by api_key
    api_usage,            \* table api_usage, in insertion order
    api_resp,             \* what the last API request was answered
    api_checked,          \* the last call of APIManager.check_rate_limit
    onboarding_events,    \* table onboarding_events, one row per event at most
    onboarding_steps,     \* table onboarding_steps per event, in insertion order
    customer_monitoring,  \* table customer_monitoring: whether it exists, its rows
    flow                  \* position of each _execute_onboarding_flow thread

cfgVars  == <<app, DATABASE_URL, tz>>
gateVars == <<rate_limits, redis_rate, usage_logs, resp, checked, called>>
envVars == <<REDIS_AVAILABLE, redisUp, dbUp>>
wlVars  == <<ip_whitelist, redis_whitelist, removed_at>>
crmVars == <<resource_pools, resource_allocations, customers, managers, lock,
             dbLock, next_uuid, pc, loc, ret>>
apiVars == <<api_keys, api_rate_limits, api_usage, api_resp, api_checked>>
obVars  == <<onboarding_events, onboarding_steps, customer_monitoring, flow>>
vars    == <<cfgVars, gateVars, now, ticks, envVars, wlVars, crmVars, apiVars,
             obVars>>

----------------------------------------------------------------------------
(* Bounds of the model *)

MaxTicks    == 2      \* clock advances in one behaviour
MaxManagers == 2      \* CustomerResourceManager objects on one database
MaxCalls    == 3      \* create_customer calls (each draws a fresh uuid)
NumThreads  == 2
MaxApiCalls == 7      \* calls of APIManager.check_rate_limit
MaxRequests == 3      \* requests, and calls of check_rate_limit
MaxEvents   == 2      \* onboarding events (webhooks that start a flow)

Threads == 1 .. NumThreads

(* Program constants *)

cache_timeout  == 300
LeaseDays      == 30
SecondsPerDay  == 24 * 60 * 60
HalfDay        == SecondsPerDay \div 2

window_duration == 60
Hour            == 60 * 60

Lease == LeaseDays * SecondsPerDay

\* Clock advances between provisioning calls, between requests, and between
\* calls of check_rate_limit (inside a window and past it; no two instants
\* are exactly window_duration apart, where the two paths differ).
TickSteps == {HalfDay, Lease - HalfDay}
GateTickSteps == {cache_timeout, Lease}
RateTickSteps == {window_duration \div 2 - 1, window_duration + 1}
StaleTickSteps == {2, cache_timeout - 1}

\* Offsets of the server's local time from UTC.
TzOffsets == {0 - Hour, 0, Hour}

----------------------------------------------------------------------------
(* Data *)

Plans  == {"basic", "premium", "enterprise"}
Emails == {"a@x", "b@x"}

\* The two address ranges of init_resource_pools, cut to their first hosts.
BasicHosts   == <<"10.0.1.1", "192.168.100.1">>
PremiumHosts == <<"10.0.1.1">>
PortRanges   == << <<8000, 8999>> >>

PoolIPs == {BasicHosts[i] : i \in DOMAIN BasicHosts}
             \cup {PremiumHosts[i] : i \in DOMAIN PremiumHosts}

\* dev_ips and the premium addresses of UltimateCustomerManager, cut alike.
DevHosts        == <<"127.0.0.1">>
UltPremiumHosts == <<"10.0.2.100">>
UltPortStarts   == <<8000>>
PortSpan        == 99

UltIPs == {DevHosts[i] : i \in DOMAIN DevHosts}
            \cup {UltPremiumHosts[i] : i \in DOMAIN UltPremiumHosts}
AllIPs == PoolIPs \cup UltIPs

IsIPAddress(ip) == ip # "localhost"

----------------------------------------------------------------------------
(* IPWhitelistManager: add_ip, remove_ip, is_ip_allowed *)

WlRow(cid, plan, rl, exp) ==
    [customer_id |-> cid, plan_type |-> plan, rate_limit |-> rl,
     expires_at |-> exp, is_active |-> TRUE]

\* json.dumps(cache_data) under setex(key, cache_timeout, ...): the key is
\* gone once the clock reaches ttl.
CacheEntry(cid, plan, rl, exp) ==
    [customer_id |-> cid, plan_type |-> plan, rate_limit |-> rl,
     expires_at |-> exp, ttl |-> now + cache_timeout]

\* A cache command raises when the module believes the cache is there and it
\* does not answer.
CacheRaises == REDIS_AVAILABLE /\ ~redisUp

\* A variant of add_ip_db that ignores expires_days: the row expires at once.
add_ip_db_expired(ip, cid, plan, rl, days) ==
    IF IsIPAddress(ip) /\ dbUp
    THEN [ip_whitelist EXCEPT ![ip] = <<WlRow(cid, plan, rl, now)>>]
    ELSE ip_whitelist

\* add_ip: validate the address, INSERT OR REPLACE and commit, then setex.
\* Everything is inside one try: the first failure returns False and leaves
\* what was already written.
add_ip_db(ip, cid, plan, rl, days) ==
    IF IsIPAddress(ip) /\ dbUp
    THEN [ip_whitelist EXCEPT
            ![ip] = <<WlRow(cid, plan, rl, now + days * SecondsPerDay)>>]
    ELSE ip_whitelist

add_ip_cache(ip, cid, plan, rl, days) ==
    IF IsIPAddress(ip) /\ dbUp /\ REDIS_AVAILABLE /\ redisUp
    THEN [redis_whitelist EXCEPT
            ![ip] = <<CacheEntry(cid, plan, rl, now + days * SecondsPerDay)>>]
    ELSE redis_whitelist

add_ip_ret(ip) == IsIPAddress(ip) /\ dbUp /\ ~CacheRaises

\* remove_ip over a set of addresses, called one after the other: UPDATE
\* is_active = 0 and commit, then delete the cache key.
remove_ip_db(ips) ==
    IF dbUp
    THEN [ip \in DOMAIN ip_whitelist |->
            IF ip \in ips /\ ip_whitelist[ip] # <<>>
            THEN <<[ip_whitelist[ip][1] EXCEPT !.is_active = FALSE]>>
            ELSE ip_whitelist[ip]]
    ELSE ip_whitelist

remove_ip_cache(ips) ==
    IF dbUp /\ REDIS_AVAILABLE /\ redisUp
    THEN [ip \in DOMAIN redis_whitelist |->
            IF ip \in ips THEN <<>> ELSE redis_whitelist[ip]]
    ELSE redis_whitelist

remove_ip_ret == dbUp /\ ~CacheRaises

\* The time of the UPDATE of remove_ip that deactivated the row of an address,
\* kept until add_ip writes the row again.
NoRemoval == 0 - 1

add_ip_removed(ip) ==
    IF IsIPAddress(ip) /\ dbUp
    THEN [removed_at EXCEPT ![ip] = NoRemoval]
    ELSE removed_at

remove_ip_removed(ips) ==
    IF dbUp
    THEN [ip \in DOMAIN removed_at |->
            IF ip \in ips /\ ip_whitelist[ip] # <<>> /\ ip_whitelist[ip][1].is_active
            THEN now
            ELSE removed_at[ip]]
    ELSE removed_at

\* The result of is_ip_allowed.
Allowed(d) == [kind |-> "allowed", customer_id |-> d.customer_id,
               plan_type |-> d.plan_type, rate_limit |-> d.rate_limit]
Denied     == [kind |-> "denied", customer_id |-> 0, plan_type |-> "",
               rate_limit |-> 0]
Raised     == [kind |-> "raised", customer_id |-> 0, plan_type |-> "",
               rate_limit |-> 0]

CacheHit(ip) ==
    /\ REDIS_AVAILABLE
    /\ redis_whitelist[ip] # <<>>
    /\ redis_whitelist[ip][1].expires_at > now

\* A variant of the database lookup that answers from the rows it last saw
\* when the database cannot be opened.
DbHit_during_outage(ip) ==
    /\ ip_whitelist[ip] # <<>>
    /\ ip_whitelist[ip][1].is_active
    /\ ip_whitelist[ip][1].expires_at > now

DbHit(ip) ==
    /\ dbUp
    /\ ip_whitelist[ip] # <<>>
    /\ ip_whitelist[ip][1].is_active
    /\ ip_whitelist[ip][1].expires_at > now

\* is_ip_allowed: the cache read is outside any try; the database fallback
\* and the write-through are inside one.
is_ip_allowed(ip) ==
    IF CacheRaises THEN Raised
    ELSE IF CacheHit(ip) THEN Allowed(redis_whitelist[ip][1])
    ELSE IF DbHit(ip) THEN Allowed(ip_whitelist[ip][1])
    ELSE Denied

is_ip_allowed_cache(ip) ==
    IF ~CacheRaises /\ ~CacheHit(ip) /\ DbHit(ip) /\ REDIS_AVAILABLE
    THEN [redis_whitelist EXCEPT
            ![ip] = <<CacheEntry(ip_whitelist[ip][1].customer_id,
                                 ip_whitelist[ip][1].plan_type,
                                 ip_whitelist[ip][1].rate_limit,
                                 ip_whitelist[ip][1].expires_at)>>]
    ELSE redis_whitelist

----------------------------------------------------------------------------
(* CustomerResourceManager *)

PoolRow(ip, ps, pe, rt, plan) ==
    [ip_address |-> ip, port_start |-> ps, port_end |-> pe,
     resource_type |-> rt, is_available |-> TRUE, reserved_for_plan |-> plan]

\* init_resource_pools: an ip_only row reserved for basic for every host, and
\* an ip_port row reserved for premium for every premium host and port range.
\* pool_id is a fresh uuid4, so INSERT OR IGNORE never ignores: every
\* construction of a manager inserts the rows again.
SeedRows ==
    [i \in DOMAIN BasicHosts |-> PoolRow(BasicHosts[i], 0, 0, "ip_only", "basic")]
    \o [i \in DOMAIN PremiumHosts |->
          PoolRow(PremiumHosts[i], PortRanges[1][1], PortRanges[1][2],
                  "ip_port", "premium")]

init_resource_pools(pools) == pools \o SeedRows

\* _allocate_resource: the resource type of a plan.
ResourceTypeOf(plan) ==
    IF plan = "basic" THEN "ip_only"
    ELSE IF plan = "premium" THEN "ip_port"
    ELSE "port_range"

\* The rows the SELECT of _allocate_resource chooses among (ORDER BY RANDOM()
\* LIMIT 1); no row has reserved_for_plan NULL.
Eligible(plan) ==
    {p \in DOMAIN resource_pools :
        /\ resource_pools[p].resource_type = ResourceTypeOf(plan)
        /\ resource_pools[p].is_available
        /\ resource_pools[p].reserved_for_plan = plan}

\* rate_limits.get(plan_type, 100)
RateBasic      == 100
RatePremium    == 500
RateEnterprise == 2000
RateLimitOf(plan) ==
    IF plan = "basic" THEN RateBasic
    ELSE IF plan = "premium" THEN RatePremium
    ELSE IF plan = "enterprise" THEN RateEnterprise
    ELSE RateBasic

\* A customer_id is the number of the uuid4 it was made from; 0 is no customer.
NoLoc == [m |-> 0, email |-> "", plan |-> "", customer_id |-> 0, pool |-> 0,
          expires_at |-> 0, expired |-> {}, ip |-> "", limit |-> 0,
          result |-> <<>>]
NoRet == [ok |-> FALSE, customer_id |-> 0, error |-> "", ip |-> ""]
Ok(cid, ip)  == [ok |-> TRUE, customer_id |-> cid, error |-> "", ip |-> ip]
Fail(msg)    == [ok |-> FALSE, customer_id |-> 0, error |-> msg, ip |-> ""]

\* The text comparison expires_at < ? of cleanup_expired_resources.  The
\* column holds str(datetime) with a space between date and time, the
\* parameter is isoformat() with a 'T': the dates decide, and on equal dates
\* the stored text is the smaller one.
DateOf(t) == t \div SecondsPerDay
TextLess(stored, param) == DateOf(stored) <= DateOf(param)

ExpiredAllocations ==
    {a \in DOMAIN resource_allocations :
        /\ resource_allocations[a].is_active
        /\ TextLess(resource_allocations[a].expires_at, now)}

----------------------------------------------------------------------------
(* create_customer, one step per statement that other threads can observe *)

\* with self.lock: ... customer_id = uuid4()
CreateBegin(t, m, email, plan) ==
    /\ app = "proxy"
    /\ pc[t] = "idle"
    /\ m \in 1 .. managers
    /\ lock[m] = 0
    /\ next_uuid < MaxCalls
    /\ lock' = [lock EXCEPT ![m] = t]
    /\ next_uuid' = next_uuid + 1
    /\ loc' = [loc EXCEPT ![t] = [NoLoc EXCEPT !.m = m, !.email = email,
                                   !.plan = plan, !.customer_id = next_uuid + 1]]
    /\ pc' = [pc EXCEPT ![t] = "insert"]
    /\ ret' = NoRet
    /\ UNCHANGED <<obVars, apiVars, cfgVars, gateVars, now, ticks, envVars, wlVars, resource_pools,
                   resource_allocations, customers, managers, dbLock>>

\* What the open transaction of thread t has written: the customer row, the
\* flag of the chosen pool row and the allocation row.
tx_customers(t) ==
    customers \cup
        {[customer_id |-> loc[t].customer_id, email |-> loc[t].email,
          plan_type |-> loc[t].plan, status |-> "active"]}

tx_pools(t) ==
    IF loc[t].pool = 0 THEN resource_pools
    ELSE [resource_pools EXCEPT ![loc[t].pool].is_available = FALSE]

tx_allocations(t, rtype) ==
    IF loc[t].pool = 0 THEN resource_allocations
    ELSE Append(resource_allocations,
            [customer_id |-> loc[t].customer_id,
             ip_address |-> resource_pools[loc[t].pool].ip_address,
             port_start |-> resource_pools[loc[t].pool].port_start,
             port_end |-> resource_pools[loc[t].pool].port_end,
             resource_type |-> rtype,
             expires_at |-> loc[t].expires_at, is_active |-> TRUE])

\* Variants of the rollback that keep what the transaction wrote.
rollback_pools_kept(t) == tx_pools(t)
rollback_customers_kept(t) == tx_customers(t)

\* conn.rollback(), or the connection dropped with its transaction open: the
\* tables are as they were committed.
rollback_customers(t) == customers
rollback_pools(t) == resource_pools
rollback_allocations(t) == resource_allocations

\* Leaving create_customer with (False, msg): the connection's transaction, if
\* any, is rolled back and both locks are released.
CreateFail(t, msg) ==
    /\ customers' = rollback_customers(t)
    /\ resource_pools' = rollback_pools(t)
    /\ resource_allocations' = rollback_allocations(t)
    /\ lock' = [lock EXCEPT ![loc[t].m] = 0]
    /\ dbLock' = IF dbLock = t THEN 0 ELSE dbLock
    /\ pc' = [pc EXCEPT ![t] = "idle"]
    /\ loc' = [loc EXCEPT ![t] = NoLoc]
    /\ ret' = Fail(msg)
    /\ UNCHANGED <<managers, next_uuid>>

\* INSERT INTO customers: opens the write transaction.  Another connection's
\* open write transaction makes it wait and, after the busy timeout, raise;
\* a second row with the same email raises as well.
CreateInsert(t) ==
    /\ pc[t] = "insert"
    /\ IF dbLock # 0
       THEN CreateFail(t, "database is locked")
       ELSE IF \E c \in customers : c.email = loc[t].email
       THEN CreateFail(t, "UNIQUE constraint failed")
       ELSE /\ dbLock' = t
            /\ pc' = [pc EXCEPT ![t] = "allocate"]
            /\ UNCHANGED <<lock, loc, ret, resource_pools, resource_allocations,
                           customers, managers, next_uuid>>
    /\ UNCHANGED <<obVars, apiVars, cfgVars, gateVars, now, ticks, envVars, wlVars>>

\* _allocate_resource: SELECT ... ORDER BY RANDOM() LIMIT 1, then the UPDATE
\* and the INSERT inside the open transaction.
CreateAllocate(t) ==
    /\ pc[t] = "allocate"
    /\ IF Eligible(loc[t].plan) = {}
       THEN CreateFail(t, "No available resources for plan type")
       ELSE /\ \E p \in Eligible(loc[t].plan) :
                 loc' = [loc EXCEPT ![t].pool = p,
                                    ![t].expires_at = now + Lease]
            /\ pc' = [pc EXCEPT ![t] = "add_ip"]
            /\ UNCHANGED <<lock, dbLock, ret, resource_pools,
                           resource_allocations, customers, managers, next_uuid>>
    /\ UNCHANGED <<obVars, apiVars, cfgVars, gateVars, now, ticks, envVars, wlVars>>

\* whitelist_manager.add_ip(resource.ip_address, customer_id, plan_type,
\* rate_limits.get(plan_type, 100), 30, ...).  The import before it names the
\* module proxy-test-app, which Python cannot parse; whitelist_manager is
\* taken to be the IPWhitelistManager object of proxy-test-app.py.
CreateAddIp(t) ==
    /\ pc[t] = "add_ip"
    /\ LET ip == resource_pools[loc[t].pool].ip_address
           cid == loc[t].customer_id
           plan == loc[t].plan
       IN /\ ip_whitelist' = add_ip_db(ip, cid, plan, RateLimitOf(plan), LeaseDays)
          /\ redis_whitelist' = add_ip_cache(ip, cid, plan, RateLimitOf(plan), LeaseDays)
          /\ removed_at' = add_ip_removed(ip)
          /\ IF add_ip_ret(ip)
             THEN /\ pc' = [pc EXCEPT ![t] = "commit"]
                  /\ UNCHANGED <<lock, dbLock, loc, ret, resource_pools,
                                 resource_allocations, customers, managers,
                                 next_uuid>>
             ELSE CreateFail(t, "Failed to add to whitelist")
    /\ UNCHANGED <<obVars, apiVars, cfgVars, gateVars, now, ticks, envVars>>

\* conn.commit(): the customer row, the pool row's flag and the allocation
\* row become visible together.
CreateCommit(t) ==
    /\ pc[t] = "commit"
    /\ customers' = tx_customers(t)
    /\ resource_pools' = tx_pools(t)
    /\ resource_allocations' = tx_allocations(t, ResourceTypeOf(loc[t].plan))
    /\ ret' = Ok(loc[t].customer_id, resource_pools[loc[t].pool].ip_address)
    /\ lock' = [lock EXCEPT ![loc[t].m] = 0]
    /\ dbLock' = 0
    /\ pc' = [pc EXCEPT ![t] = "idle"]
    /\ loc' = [loc EXCEPT ![t] = NoLoc]
    /\ UNCHANGED <<obVars, apiVars, cfgVars, gateVars, now, ticks, envVars, wlVars, managers, next_uuid>>

----------------------------------------------------------------------------
(* cleanup_expired_resources *)

\* with self.lock: ... SELECT allocation_id, ip_address ... WHERE
\* expires_at < ? AND is_active = 1
CleanupSelect(t, m) ==
    /\ app = "proxy"
    /\ pc[t] = "idle"
    /\ m \in 1 .. managers
    /\ lock[m] = 0
    /\ lock' = [lock EXCEPT ![m] = t]
    /\ loc' = [loc EXCEPT ![t] = [NoLoc EXCEPT !.m = m,
                                   !.expired = ExpiredAllocations]]
    /\ pc' = [pc EXCEPT ![t] = "cleanup"]
    /\ ret' = NoRet
    /\ UNCHANGED <<obVars, apiVars, cfgVars, gateVars, now, ticks, envVars, wlVars, resource_pools,
                   resource_allocations, customers, managers, dbLock, next_uuid>>

ExpiredIPs(expired) == {resource_allocations[a].ip_address : a \in expired}

\* UPDATE resource_allocations SET is_active = 0 WHERE allocation_id = ?
cleanup_allocations(expired) ==
    [a \in DOMAIN resource_allocations |->
        IF a \in expired
        THEN [resource_allocations[a] EXCEPT !.is_active = FALSE]
        ELSE resource_allocations[a]]

\* UPDATE resource_pools SET is_available = 1 WHERE ip_address = ?
cleanup_pools(expired) ==
    [p \in DOMAIN resource_pools |->
        IF resource_pools[p].ip_address \in ExpiredIPs(expired)
        THEN [resource_pools[p] EXCEPT !.is_available = TRUE]
        ELSE resource_pools[p]]

\* The loop over the expired rows and the commit.  The first UPDATE needs the
\* write lock: held by another connection, it raises out of the method and
\* nothing has been changed.
CleanupApply(t) ==
    /\ pc[t] = "cleanup"
    /\ IF loc[t].expired # {} /\ dbLock = 0
       THEN /\ resource_allocations' = cleanup_allocations(loc[t].expired)
            /\ resource_pools' = cleanup_pools(loc[t].expired)
            /\ ip_whitelist' = remove_ip_db(ExpiredIPs(loc[t].expired))
            /\ redis_whitelist' = remove_ip_cache(ExpiredIPs(loc[t].expired))
            /\ removed_at' = remove_ip_removed(ExpiredIPs(loc[t].expired))
       ELSE UNCHANGED <<resource_allocations, resource_pools, wlVars>>
    /\ lock' = [lock EXCEPT ![loc[t].m] = 0]
    /\ pc' = [pc EXCEPT ![t] = "idle"]
    /\ loc' = [loc EXCEPT ![t] = NoLoc]
    /\ UNCHANGED <<obVars, apiVars, cfgVars, gateVars, now, ticks, envVars, customers, managers, dbLock, next_uuid,
                   ret>>

----------------------------------------------------------------------------
(* BillingScheduler *)

\* get_customer_resources: the active allocations of the customer.
get_customer_resources(cid) ==
    {a \in DOMAIN resource_allocations :
        /\ resource_allocations[a].customer_id = cid
        /\ resource_allocations[a].is_active}

\* UPDATE customers SET status = 'expired' WHERE customer_id = ?
expire_customer(cid) ==
    {IF c.customer_id = cid THEN [c EXCEPT !.status = "expired"] ELSE c :
        c \in customers}

\* UPDATE resource_allocations SET is_active = 0 WHERE customer_id = ?
expire_allocations(cid) ==
    [a \in DOMAIN resource_allocations |->
        IF resource_allocations[a].customer_id = cid
        THEN [resource_allocations[a] EXCEPT !.is_active = FALSE]
        ELSE resource_allocations[a]]

\* cleanup_expired_customer(customer_id): remove_ip for the address of every
\* active allocation (its result is not looked at), then the two UPDATEs and
\* the commit.  resource_pools is not written.  The method's import names the
\* proxy application's whitelist_manager.
CleanupExpiredCustomer(cid) ==
    /\ app = "proxy"
    /\ \A t \in Threads : pc[t] = "idle"
    /\ \E c \in customers : c.customer_id = cid
    /\ ip_whitelist' = remove_ip_db(ExpiredIPs(get_customer_resources(cid)))
    /\ redis_whitelist' = remove_ip_cache(ExpiredIPs(get_customer_resources(cid)))
    /\ removed_at' = remove_ip_removed(ExpiredIPs(get_customer_resources(cid)))
    /\ customers' = expire_customer(cid)
    /\ resource_allocations' = expire_allocations(cid)
    /\ UNCHANGED <<obVars, apiVars, cfgVars, gateVars, now, ticks, envVars, resource_pools,
                   managers, lock, dbLock, next_uuid, pc, loc, ret>>

----------------------------------------------------------------------------
(* The environment *)

\* CustomerResourceManager(db_path) on the database already in use.
NewManager ==
    /\ app = "proxy"
    /\ managers < MaxManagers
    /\ dbLock = 0
    /\ managers' = managers + 1
    /\ resource_pools' = init_resource_pools(resource_pools)
    /\ UNCHANGED <<obVars, apiVars, cfgVars, gateVars, now, ticks, envVars, wlVars, resource_allocations, customers,
                   lock, dbLock, next_uuid, pc, loc, ret>>

\* A key that incr created and expire has not reached yet has no time to
\* live: the cache keeps it until it is given one.
NoExpiry == 0 - 1

\* Cache keys whose time to live has run out are gone.
ExpireKeys(cache, t) ==
    [ip \in DOMAIN cache |->
        IF cache[ip] # <<>> /\ cache[ip][1].ttl # NoExpiry /\ cache[ip][1].ttl <= t
        THEN <<>> ELSE cache[ip]]

\* The clock moves between calls, and while a lookup waits for the cache to
\* take its write-through.
Tick(d) ==
    /\ ticks < MaxTicks
    /\ \A t \in Threads : pc[t] \in {"idle", "setex"}
    /\ ticks' = ticks + 1
    /\ now' = now + d
    /\ redis_whitelist' = ExpireKeys(redis_whitelist, now + d)
    /\ redis_rate' = ExpireKeys(redis_rate, now + d)
    /\ UNCHANGED <<obVars, apiVars, cfgVars, rate_limits, usage_logs, resp, checked, called,
                   envVars, ip_whitelist, removed_at, crmVars>>

\* A request's whitelist lookup, with its write-through to the cache.
IsIpAllowed(ip) ==
    /\ redis_whitelist' = is_ip_allowed_cache(ip)
    /\ redis_whitelist' # redis_whitelist
    /\ UNCHANGED <<obVars, apiVars, cfgVars, gateVars, now, ticks, envVars, ip_whitelist, removed_at,
                   crmVars>>

DbFail ==
    /\ dbUp
    /\ dbUp' = FALSE
    /\ UNCHANGED <<obVars, apiVars, cfgVars, gateVars, now, ticks, REDIS_AVAILABLE, redisUp, wlVars, crmVars>>

DbRecover ==
    /\ ~dbUp
    /\ dbUp' = TRUE
    /\ UNCHANGED <<obVars, apiVars, cfgVars, gateVars, now, ticks, REDIS_AVAILABLE, redisUp, wlVars, crmVars>>

RedisFail ==
    /\ redisUp
    /\ redisUp' = FALSE
    /\ UNCHANGED <<obVars, apiVars, cfgVars, gateVars, now, ticks, REDIS_AVAILABLE, dbUp, wlVars, crmVars>>

RedisRecover ==
    /\ ~redisUp
    /\ redisUp' = TRUE
    /\ UNCHANGED <<obVars, apiVars, cfgVars, gateVars, now, ticks, REDIS_AVAILABLE, dbUp, wlVars, crmVars>>

----------------------------------------------------------------------------
(* UltimateCustomerManager: create_customer_from_paypal *)

\* init_resource_pools on an empty table: ip_only rows for basic and
\* port_range rows for enterprise on the development addresses, ip_port rows
\* for premium.
UltSeedRows ==
    [i \in DOMAIN DevHosts |-> PoolRow(DevHosts[i], 0, 0, "ip_only", "basic")]
    \o [i \in DOMAIN DevHosts |->
          PoolRow(DevHosts[i], 0, 0, "port_range", "enterprise")]
    \o [i \in DOMAIN UltPremiumHosts |->
          PoolRow(UltPremiumHosts[i], UltPortStarts[1],
                  UltPortStarts[1] + PortSpan, "ip_port", "premium")]

ult_init_resource_pools(pools) == IF Len(pools) = 0 THEN UltSeedRows ELSE pools

\* The two queries of _allocate_resource: ip_only rows reserved for the plan,
\* else any available ip_only row.  first() has no ORDER BY: any matching row.
UltExact(plan) ==
    {p \in DOMAIN resource_pools :
        /\ resource_pools[p].resource_type = "ip_only"
        /\ resource_pools[p].is_available
        /\ resource_pools[p].reserved_for_plan = plan}

UltAny ==
    {p \in DOMAIN resource_pools :
        /\ resource_pools[p].resource_type = "ip_only"
        /\ resource_pools[p].is_available}

UltCandidates(plan) == IF UltExact(plan) # {} THEN UltExact(plan) ELSE UltAny

\* A store with one writer at a time (SQLite, the default DATABASE_URL) makes
\* the flush of the pending customer row wait for the open write transaction
\* of another session; any other store lets the sessions run side by side,
\* each reading what is committed.
SingleWriter == DATABASE_URL = "sqlite"

\* customer = Customer(...); db.session.add(customer)
UltCreateBegin(t, email, plan) ==
    /\ app = "ultimate"
    /\ pc[t] = "idle"
    /\ next_uuid < MaxCalls
    /\ next_uuid' = next_uuid + 1
    /\ loc' = [loc EXCEPT ![t] = [NoLoc EXCEPT !.email = email, !.plan = plan,
                                   !.customer_id = next_uuid + 1]]
    /\ pc' = [pc EXCEPT ![t] = "u_allocate"]
    /\ ret' = NoRet
    /\ UNCHANGED <<obVars, apiVars, cfgVars, gateVars, now, ticks, envVars, wlVars,
                   resource_pools, resource_allocations, customers, managers,
                   lock, dbLock>>

\* db.session.rollback() and return (False, msg)
UltCreateFail(t, msg) ==
    /\ customers' = rollback_customers(t)
    /\ resource_pools' = rollback_pools(t)
    /\ resource_allocations' = rollback_allocations(t)
    /\ dbLock' = IF dbLock = t THEN 0 ELSE dbLock
    /\ pc' = [pc EXCEPT ![t] = "idle"]
    /\ loc' = [loc EXCEPT ![t] = NoLoc]
    /\ ret' = Fail(msg)
    /\ UNCHANGED <<managers, lock, next_uuid>>

\* _allocate_resource: the first query flushes the pending customer row
\* (autoflush), which opens the transaction; then the row is chosen, its flag
\* set and the allocation added, all in the session.
UltAllocate(t) ==
    /\ pc[t] = "u_allocate"
    /\ IF SingleWriter /\ dbLock # 0
       THEN UltCreateFail(t, "database is locked")
       ELSE IF \E c \in customers : c.email = loc[t].email
       THEN UltCreateFail(t, "UNIQUE constraint failed")
       ELSE IF UltCandidates(loc[t].plan) = {}
       THEN UltCreateFail(t, "No available resources")
       ELSE /\ \E p \in UltCandidates(loc[t].plan) :
                 loc' = [loc EXCEPT ![t].pool = p,
                                    ![t].expires_at = now + Lease]
            /\ dbLock' = IF SingleWriter THEN t ELSE dbLock
            /\ pc' = [pc EXCEPT ![t] = "u_whitelist"]
            /\ UNCHANGED <<ret, resource_pools, resource_allocations,
                           customers, managers, lock, next_uuid>>
    /\ UNCHANGED <<obVars, apiVars, cfgVars, gateVars, now, ticks, envVars, wlVars>>

\* _add_to_whitelist: only the cache is written; a cache error is caught by
\* create_customer_from_paypal, which rolls back.
UltAddToWhitelist(t) ==
    /\ pc[t] = "u_whitelist"
    /\ LET ip == resource_pools[loc[t].pool].ip_address
           plan == loc[t].plan
       IN IF CacheRaises
          THEN /\ UltCreateFail(t, "cache error")
               /\ UNCHANGED redis_whitelist
          ELSE /\ redis_whitelist' =
                    IF REDIS_AVAILABLE
                    THEN [redis_whitelist EXCEPT ![ip] =
                            <<CacheEntry(loc[t].customer_id, plan,
                                         RateLimitOf(plan), now + Lease)>>]
                    ELSE redis_whitelist
               /\ pc' = [pc EXCEPT ![t] = "u_commit"]
               /\ UNCHANGED <<dbLock, loc, ret, resource_pools,
                              resource_allocations, customers, managers, lock,
                              next_uuid>>
    /\ UNCHANGED <<obVars, apiVars, cfgVars, gateVars, now, ticks, envVars, ip_whitelist, removed_at>>

\* The flush of a customer row whose email another session committed in the
\* meantime raises (the unique index on email).
UltCommitConflict(t) ==
    /\ pc[t] = "u_commit"
    /\ \E c \in customers : c.email = loc[t].email
    /\ UltCreateFail(t, "UNIQUE constraint failed")
    /\ UNCHANGED <<obVars, apiVars, cfgVars, gateVars, now, ticks, envVars, wlVars>>

\* db.session.commit(): UPDATE resource_pools SET is_available = 0 WHERE id = ?
\* and the INSERT of the allocation, then the commit.
UltCommit(t) ==
    /\ pc[t] = "u_commit"
    /\ \A c \in customers : c.email # loc[t].email
    /\ customers' = tx_customers(t)
    /\ resource_pools' = tx_pools(t)
    /\ resource_allocations' = tx_allocations(t, "ip_only")
    /\ ret' = Ok(loc[t].customer_id, resource_pools[loc[t].pool].ip_address)
    /\ dbLock' = IF dbLock = t THEN 0 ELSE dbLock
    /\ pc' = [pc EXCEPT ![t] = "idle"]
    /\ loc' = [loc EXCEPT ![t] = NoLoc]
    /\ UNCHANGED <<obVars, apiVars, cfgVars, gateVars, now, ticks, envVars, wlVars, managers,
                   lock, next_uuid>>

----------------------------------------------------------------------------
(* IPWhitelistManager: check_rate_limit, log_usage, and the request gate *)

ClientIPs == {"10.0.1.1"}
FormIPs   == ClientIPs \cup {"localhost"}
Limits    == {1, 2}
ExpiresDays == {0, LeaseDays}

NoResp  == [n |-> 0, ip |-> "", status |-> 0, handled |-> FALSE, outcome |-> ""]
NoCheck == [n |-> 0, ip |-> "", limit |-> 0, result |-> ""]

\* CURRENT_TIMESTAMP is UTC; datetime.now() is local time.
CURRENT_TIMESTAMP == now - tz

\* The cache path: incr, and expire(key, 60) when the count is 1.
check_rate_limit_cache(ip) ==
    IF redis_rate[ip] = <<>>
    THEN [redis_rate EXCEPT ![ip] = <<[count |-> 1, ttl |-> now + window_duration]>>]
    ELSE [redis_rate EXCEPT ![ip] =
            <<[redis_rate[ip][1] EXCEPT !.count = @ + 1]>>]

\* The database path: datetime.now() - window_start > 60 seconds restarts the
\* window, else the count goes up by one; no row yet inserts one.
WindowOver(ip) == now - rate_limits[ip][1].window_start > window_duration

check_rate_limit_db(ip) ==
    IF rate_limits[ip] = <<>>
    THEN [rate_limits EXCEPT ![ip] =
            <<[requests_count |-> 1, window_start |-> CURRENT_TIMESTAMP]>>]
    ELSE IF WindowOver(ip)
    THEN [rate_limits EXCEPT ![ip] =
            <<[requests_count |-> 1, window_start |-> CURRENT_TIMESTAMP]>>]
    ELSE [rate_limits EXCEPT ![ip] =
            <<[rate_limits[ip][1] EXCEPT !.requests_count = @ + 1]>>]

\* Neither path has a try: a cache that does not answer, or a database that
\* cannot be opened, raises out of check_rate_limit.
check_rate_limit_raises ==
    IF REDIS_AVAILABLE THEN ~redisUp ELSE ~dbUp

check_rate_limit_count(ip) ==
    IF REDIS_AVAILABLE
    THEN check_rate_limit_cache(ip)[ip][1].count
    ELSE check_rate_limit_db(ip)[ip][1].requests_count

check_rate_limit(ip, rate_limit) ==
    IF check_rate_limit_raises THEN "raised"
    ELSE IF check_rate_limit_count(ip) <= rate_limit THEN "allowed"
    ELSE "denied"

\* A variant of log_usage without its except clause: a failed INSERT raises.
log_usage_unguarded == ~dbUp

\* log_usage: the INSERT, with every exception swallowed: `except Exception`
\* around the whole body, so nothing is raised to the caller.
log_usage_raises == FALSE

log_usage(ip, cid, success) ==
    IF dbUp
    THEN Append(usage_logs, [ip_address |-> ip, customer_id |-> cid,
                             success |-> success])
    ELSE usage_logs

\* The calls of check_rate_limit for ip that returned, counted by the clock
\* alone: a call 60 seconds or more after the first of a run starts a new run.
count_call(ip) ==
    IF called[ip].k = 0 \/ now - called[ip].since >= window_duration
    THEN [called EXCEPT ![ip] = [k |-> 1, since |-> now]]
    ELSE [called EXCEPT ![ip].k = @ + 1]

\* A direct call of check_rate_limit(ip, L).
CheckRateLimit(ip, L) ==
    /\ app = "proxy"
    /\ checked.n < MaxRequests
    /\ checked' = [n |-> checked.n + 1, ip |-> ip, limit |-> L,
                   result |-> check_rate_limit(ip, L)]
    /\ redis_rate' = IF REDIS_AVAILABLE /\ ~check_rate_limit_raises
                     THEN check_rate_limit_cache(ip) ELSE redis_rate
    /\ rate_limits' = IF ~REDIS_AVAILABLE /\ ~check_rate_limit_raises
                      THEN check_rate_limit_db(ip) ELSE rate_limits
    /\ called' = IF check_rate_limit_raises THEN called ELSE count_call(ip)
    /\ UNCHANGED <<obVars, apiVars, cfgVars, usage_logs, resp, now, ticks, envVars, wlVars, crmVars>>

\* The database path of check_rate_limit, statement by statement, as calls in
\* several request threads run it.  The connection is in the sqlite3 module's
\* default mode: the SELECT runs outside any transaction, the UPDATE or INSERT
\* opens one and conn.commit() ends it; a second writer waits for the first.

\* cursor.execute(SELECT ...); result = cursor.fetchone()
RateSelect(t, ip, L) ==
    /\ app = "proxy"
    /\ ~REDIS_AVAILABLE
    /\ pc[t] = "idle"
    /\ checked.n + Cardinality({u \in Threads : pc[u] = "rate_limit"}) < MaxRequests
    /\ IF dbUp
       THEN /\ pc' = [pc EXCEPT ![t] = "rate_limit"]
            /\ loc' = [loc EXCEPT ![t] = [NoLoc EXCEPT !.ip = ip, !.limit = L,
                                           !.result = rate_limits[ip]]]
            /\ UNCHANGED checked
       ELSE /\ checked' = [n |-> checked.n + 1, ip |-> ip, limit |-> L,
                           result |-> "raised"]
            /\ UNCHANGED <<pc, loc>>
    /\ UNCHANGED <<obVars, apiVars, cfgVars, rate_limits, redis_rate, usage_logs, resp, called, now,
                   ticks, envVars, wlVars, resource_pools, resource_allocations,
                   customers, managers, lock, dbLock, next_uuid, ret>>

\* datetime.now() - window_start_dt > timedelta(seconds=window_duration), on
\* the row the SELECT returned.
window_over(t) == now - loc[t].result[1].window_start > window_duration

\* The local variable count after the branch taken.
count(t) ==
    IF loc[t].result = <<>> THEN 1
    ELSE IF window_over(t) THEN 1
    ELSE loc[t].result[1].requests_count + 1

\* The INSERT of a call that saw no row meets the row another call has
\* inserted since: ip_address is the PRIMARY KEY.
insert_conflict(t) == loc[t].result = <<>> /\ rate_limits[loc[t].ip] # <<>>

\* The statement of the branch taken, applied to the table as it is now.
rate_limit_write(t) ==
    IF loc[t].result = <<>> \/ window_over(t)
    THEN [rate_limits EXCEPT ![loc[t].ip] =
            <<[requests_count |-> 1, window_start |-> CURRENT_TIMESTAMP]>>]
    ELSE [rate_limits EXCEPT ![loc[t].ip] =
            <<[rate_limits[loc[t].ip][1] EXCEPT !.requests_count = @ + 1]>>]

\* The UPDATE or INSERT, conn.commit() and return count <= rate_limit.
RateWrite(t) ==
    /\ pc[t] = "rate_limit"
    /\ IF ~dbUp \/ insert_conflict(t)
       THEN /\ checked' = [n |-> checked.n + 1, ip |-> loc[t].ip,
                           limit |-> loc[t].limit, result |-> "raised"]
            /\ UNCHANGED <<rate_limits, called>>
       ELSE /\ rate_limits' = rate_limit_write(t)
            /\ called' = count_call(loc[t].ip)
            /\ checked' = [n |-> checked.n + 1, ip |-> loc[t].ip,
                           limit |-> loc[t].limit,
                           result |-> IF count(t) <= loc[t].limit
                                      THEN "allowed" ELSE "denied"]
    /\ pc' = [pc EXCEPT ![t] = "idle"]
    /\ loc' = [loc EXCEPT ![t] = NoLoc]
    /\ UNCHANGED <<obVars, apiVars, cfgVars, redis_rate, usage_logs, resp, now, ticks, envVars,
                   wlVars, resource_pools, resource_allocations, customers,
                   managers, lock, dbLock, next_uuid, ret>>

\* The cache path of check_rate_limit, command by command, as calls in several
\* request threads run it: incr and expire are two commands to the cache.

\* current_count = redis_client.incr(key)
incr(ip) ==
    IF redis_rate[ip] = <<>>
    THEN [redis_rate EXCEPT ![ip] = <<[count |-> 1, ttl |-> NoExpiry]>>]
    ELSE [redis_rate EXCEPT ![ip] = <<[redis_rate[ip][1] EXCEPT !.count = @ + 1]>>]

CacheIncr(t, ip, L) ==
    /\ app = "proxy"
    /\ REDIS_AVAILABLE
    /\ pc[t] = "idle"
    /\ checked.n + Cardinality({u \in Threads : pc[u] = "rate_cache"}) < MaxRequests
    /\ IF redisUp
       THEN /\ redis_rate' = incr(ip)
            /\ pc' = [pc EXCEPT ![t] = "rate_cache"]
            /\ loc' = [loc EXCEPT ![t] = [NoLoc EXCEPT !.ip = ip, !.limit = L,
                                           !.result = <<incr(ip)[ip][1].count>>]]
            /\ UNCHANGED checked
       ELSE /\ checked' = [n |-> checked.n + 1, ip |-> ip, limit |-> L,
                           result |-> "raised"]
            /\ UNCHANGED <<redis_rate, pc, loc>>
    /\ UNCHANGED <<obVars, apiVars, cfgVars, rate_limits, usage_logs, resp, called, now, ticks,
                   envVars, wlVars, resource_pools, resource_allocations,
                   customers, managers, lock, dbLock, next_uuid, ret>>

\* The local variable current_count.
current_count(t) == loc[t].result[1]

\* redis_client.expire(key, window_duration)
expire(ip) ==
    IF redis_rate[ip] = <<>> THEN redis_rate
    ELSE [redis_rate EXCEPT ![ip] =
            <<[redis_rate[ip][1] EXCEPT !.ttl = now + window_duration]>>]

\* if current_count == 1: expire(...); return current_count <= rate_limit.
\* A cache that stopped answering after the incr raises in expire, and the
\* key stays as incr left it.
CacheExpire(t) ==
    /\ pc[t] = "rate_cache"
    /\ IF current_count(t) = 1 /\ ~redisUp
       THEN /\ checked' = [n |-> checked.n + 1, ip |-> loc[t].ip,
                           limit |-> loc[t].limit, result |-> "raised"]
            /\ UNCHANGED <<redis_rate, called>>
       ELSE /\ redis_rate' = IF current_count(t) = 1 THEN expire(loc[t].ip)
                             ELSE redis_rate
            /\ called' = count_call(loc[t].ip)
            /\ checked' = [n |-> checked.n + 1, ip |-> loc[t].ip,
                           limit |-> loc[t].limit,
                           result |-> IF current_count(t) <= loc[t].limit
                                      THEN "allowed" ELSE "denied"]
    /\ pc' = [pc EXCEPT ![t] = "idle"]
    /\ loc' = [loc EXCEPT ![t] = NoLoc]
    /\ UNCHANGED <<obVars, apiVars, cfgVars, rate_limits, usage_logs, resp, now, ticks, envVars,
                   wlVars, resource_pools, resource_allocations, customers,
                   managers, lock, dbLock, next_uuid, ret>>

\* UltimateCustomerManager.check_rate_limit: the cache path alone; without
\* the cache every call is allowed.
ult_check_rate_limit_raises == REDIS_AVAILABLE /\ ~redisUp

ult_check_rate_limit(ip, rate_limit) ==
    IF ~REDIS_AVAILABLE THEN "allowed"
    ELSE IF ult_check_rate_limit_raises THEN "raised"
    ELSE IF check_rate_limit_cache(ip)[ip][1].count <= rate_limit THEN "allowed"
    ELSE "denied"

\* A direct call of UltimateCustomerManager.check_rate_limit(ip, L).
UltCheckRateLimit(ip, L) ==
    /\ app = "ultimate"
    /\ checked.n < MaxRequests
    /\ checked' = [n |-> checked.n + 1, ip |-> ip, limit |-> L,
                   result |-> ult_check_rate_limit(ip, L)]
    /\ redis_rate' = IF REDIS_AVAILABLE /\ ~ult_check_rate_limit_raises
                     THEN check_rate_limit_cache(ip) ELSE redis_rate
    /\ called' = IF ult_check_rate_limit_raises THEN called ELSE count_call(ip)
    /\ UNCHANGED <<obVars, apiVars, cfgVars, rate_limits, usage_logs, resp, now, ticks, envVars,
                   wlVars, crmVars>>

\* What the wrapped handler f does when it is called.
HandlerOutcomes == {"returns", "raises"}

\* A variant of the wrapper that calls check_rate_limit before it looks at
\* the answer of is_ip_allowed.
Request_rate_first(ip, h) ==
    /\ app = "proxy"
    /\ resp.n < MaxRequests
    /\ checked.n < MaxRequests
    /\ LET r == is_ip_allowed(ip)
           c == check_rate_limit(ip, r.rate_limit)
       IN IF r.kind = "raised"
          THEN /\ resp' = [n |-> resp.n + 1, ip |-> ip, status |-> 500,
                           handled |-> FALSE, outcome |-> ""]
               /\ UNCHANGED <<rate_limits, redis_rate, usage_logs, checked,
                              called, redis_whitelist>>
          ELSE IF r.kind = "denied"
          THEN /\ resp' = [n |-> resp.n + 1, ip |-> ip,
                           status |-> IF log_usage_raises THEN 500 ELSE 403,
                           handled |-> FALSE, outcome |-> ""]
               /\ usage_logs' = log_usage(ip, 0, FALSE)
               /\ checked' = [n |-> checked.n + 1, ip |-> ip,
                              limit |-> r.rate_limit, result |-> c]
               /\ redis_rate' = IF REDIS_AVAILABLE /\ c # "raised"
                                THEN check_rate_limit_cache(ip) ELSE redis_rate
               /\ rate_limits' = IF ~REDIS_AVAILABLE /\ c # "raised"
                                 THEN check_rate_limit_db(ip) ELSE rate_limits
               /\ called' = IF c = "raised" THEN called ELSE count_call(ip)
               /\ UNCHANGED redis_whitelist
          ELSE /\ redis_whitelist' = is_ip_allowed_cache(ip)
               /\ checked' = [n |-> checked.n + 1, ip |-> ip,
                              limit |-> r.rate_limit, result |-> c]
               /\ redis_rate' = IF REDIS_AVAILABLE /\ c # "raised"
                                THEN check_rate_limit_cache(ip) ELSE redis_rate
               /\ rate_limits' = IF ~REDIS_AVAILABLE /\ c # "raised"
                                 THEN check_rate_limit_db(ip) ELSE rate_limits
               /\ called' = IF c = "raised" THEN called ELSE count_call(ip)
               /\ resp' = [n |-> resp.n + 1, ip |-> ip,
                           status |-> IF c = "raised" THEN 500
                                      ELSE IF h = "raises" /\ c = "allowed" THEN 500
                                      ELSE IF log_usage_raises THEN 500
                                      ELSE IF c = "denied" THEN 429
                                      ELSE 200,
                           handled |-> c = "allowed",
                           outcome |-> IF c = "allowed" THEN h ELSE ""]
               /\ usage_logs' = IF c = "raised" THEN usage_logs
                                ELSE IF c = "allowed" /\ h = "raises"
                                THEN usage_logs
                                ELSE log_usage(ip, r.customer_id, c = "allowed")
    /\ UNCHANGED <<obVars, apiVars, cfgVars, now, ticks, envVars, ip_whitelist, removed_at, crmVars>>


\* require_whitelisted_ip around a handler, for a request from ip.  An
\* exception out of the wrapper, the handler's included, is answered 500 by
\* the framework; the log_usage after f(*args, **kwargs) is then not reached.
\* resp.outcome keeps what the handler did when it was called.
Request(ip, h) ==
    /\ app = "proxy"
    /\ resp.n < MaxRequests
    /\ checked.n < MaxRequests
    /\ LET r == is_ip_allowed(ip)
           c == check_rate_limit(ip, r.rate_limit)
       IN IF r.kind = "raised"
          THEN /\ resp' = [n |-> resp.n + 1, ip |-> ip, status |-> 500,
                           handled |-> FALSE, outcome |-> ""]
               /\ UNCHANGED <<rate_limits, redis_rate, usage_logs, checked,
                              called, redis_whitelist>>
          ELSE IF r.kind = "denied"
          THEN /\ resp' = [n |-> resp.n + 1, ip |-> ip,
                           status |-> IF log_usage_raises THEN 500 ELSE 403,
                           handled |-> FALSE, outcome |-> ""]
               /\ usage_logs' = log_usage(ip, 0, FALSE)
               /\ UNCHANGED <<rate_limits, redis_rate, checked, called,
                              redis_whitelist>>
          ELSE /\ redis_whitelist' = is_ip_allowed_cache(ip)
               /\ checked' = [n |-> checked.n + 1, ip |-> ip,
                              limit |-> r.rate_limit, result |-> c]
               /\ redis_rate' = IF REDIS_AVAILABLE /\ c # "raised"
                                THEN check_rate_limit_cache(ip) ELSE redis_rate
               /\ rate_limits' = IF ~REDIS_AVAILABLE /\ c # "raised"
                                 THEN check_rate_limit_db(ip) ELSE rate_limits
               /\ called' = IF c = "raised" THEN called ELSE count_call(ip)
               /\ resp' = [n |-> resp.n + 1, ip |-> ip,
                           status |-> IF c = "raised" THEN 500
                                      ELSE IF h = "raises" /\ c = "allowed" THEN 500
                                      ELSE IF log_usage_raises THEN 500
                                      ELSE IF c = "denied" THEN 429
                                      ELSE 200,
                           handled |-> c = "allowed",
                           outcome |-> IF c = "allowed" THEN h ELSE ""]
               /\ usage_logs' = IF c = "raised" THEN usage_logs
                                ELSE IF c = "allowed" /\ h = "raises"
                                THEN usage_logs
                                ELSE log_usage(ip, r.customer_id, c = "allowed")
    /\ UNCHANGED <<obVars, apiVars, cfgVars, now, ticks, envVars, ip_whitelist, removed_at, crmVars>>

\* UltimateCustomerManager.is_ip_allowed.  The rows that
\* ResourceAllocation.query.filter_by(ip_address, is_active=True).first() may
\* return (0 for None): no order is asked for.
ult_first_allocation(ip) ==
    LET rows == {a \in DOMAIN resource_allocations :
                    /\ resource_allocations[a].ip_address = ip
                    /\ resource_allocations[a].is_active}
    IN IF rows = {} THEN {0} ELSE rows

\* The database fallback finds an allocation that has not expired and whose
\* customer is active.
ult_db_hit(a) ==
    /\ a # 0
    /\ resource_allocations[a].expires_at > now
    /\ \E c \in customers :
          /\ c.customer_id = resource_allocations[a].customer_id
          /\ c.status = "active"

ult_db_data(a) ==
    LET c == CHOOSE c \in customers :
                c.customer_id = resource_allocations[a].customer_id
    IN [customer_id |-> c.customer_id, plan_type |-> c.plan_type,
        rate_limit |-> RateLimitOf(c.plan_type),
        expires_at |-> resource_allocations[a].expires_at]

\* The cache read is outside any try, as in the proxy application.
ult_is_ip_allowed(ip, a) ==
    IF CacheRaises THEN Raised
    ELSE IF CacheHit(ip) THEN Allowed(redis_whitelist[ip][1])
    ELSE IF ult_db_hit(a) THEN Allowed(ult_db_data(a))
    ELSE Denied

ult_is_ip_allowed_cache(ip, a) ==
    IF ~CacheRaises /\ ~CacheHit(ip) /\ ult_db_hit(a) /\ REDIS_AVAILABLE
    THEN [redis_whitelist EXCEPT
            ![ip] = <<CacheEntry(ult_db_data(a).customer_id,
                                 ult_db_data(a).plan_type,
                                 ult_db_data(a).rate_limit,
                                 ult_db_data(a).expires_at)>>]
    ELSE redis_whitelist

\* require_whitelisted_ip of the Ultimate application around a handler.  Its
\* log_usage catches its own exceptions; the usage row goes to the
\* application's database.
UltRequest(ip, h) ==
    /\ app = "ultimate"
    /\ resp.n < MaxRequests
    /\ checked.n < MaxRequests
    /\ \E a \in ult_first_allocation(ip) :
         LET r == ult_is_ip_allowed(ip, a)
             c == ult_check_rate_limit(ip, r.rate_limit)
         IN IF r.kind = "raised"
            THEN /\ resp' = [n |-> resp.n + 1, ip |-> ip, status |-> 500,
                             handled |-> FALSE, outcome |-> ""]
                 /\ UNCHANGED <<redis_rate, usage_logs, checked, called,
                                redis_whitelist>>
            ELSE IF r.kind = "denied"
            THEN /\ resp' = [n |-> resp.n + 1, ip |-> ip, status |-> 403,
                             handled |-> FALSE, outcome |-> ""]
                 /\ usage_logs' = Append(usage_logs,
                                     [ip_address |-> ip, customer_id |-> 0,
                                      success |-> FALSE])
                 /\ UNCHANGED <<redis_rate, checked, called, redis_whitelist>>
            ELSE /\ redis_whitelist' = ult_is_ip_allowed_cache(ip, a)
                 /\ checked' = [n |-> checked.n + 1, ip |-> ip,
                                limit |-> r.rate_limit, result |-> c]
                 /\ redis_rate' = IF REDIS_AVAILABLE
                                  THEN check_rate_limit_cache(ip) ELSE redis_rate
                 /\ called' = count_call(ip)
                 /\ resp' = [n |-> resp.n + 1, ip |-> ip,
                             status |-> IF c = "denied" THEN 429
                                        ELSE IF h = "raises" THEN 500
                                        ELSE 200,
                             handled |-> c = "allowed",
                             outcome |-> IF c = "allowed" THEN h ELSE ""]
                 /\ usage_logs' = IF c = "allowed" /\ h = "raises"
                                  THEN usage_logs
                                  ELSE Append(usage_logs,
                                         [ip_address |-> ip,
                                          customer_id |-> r.customer_id,
                                          success |-> c = "allowed"])
    /\ UNCHANGED <<obVars, apiVars, cfgVars, rate_limits, now, ticks, envVars,
                   ip_whitelist, removed_at, crmVars>>

\* admin_add_ip: add_ip with the rate limit of the plan and the days of the
\* form.
AddIp(ip, cid, plan, days) ==
    /\ app = "proxy"
    /\ \A t \in Threads : pc[t] = "idle"
    /\ ip_whitelist' = add_ip_db(ip, cid, plan, RateLimitOf(plan), days)
    /\ redis_whitelist' = add_ip_cache(ip, cid, plan, RateLimitOf(plan), days)
    /\ removed_at' = add_ip_removed(ip)
    /\ ret' = IF add_ip_ret(ip) THEN Ok(cid, ip) ELSE Fail("Failed to add IP")
    /\ UNCHANGED <<obVars, apiVars, cfgVars, gateVars, now, ticks, envVars, resource_pools,
                   resource_allocations, customers, managers, lock, dbLock,
                   next_uuid, pc, loc>>

\* admin_remove_ip; requests may be inside is_ip_allowed meanwhile.
RemoveIp(ip) ==
    /\ app = "proxy"
    /\ \A t \in Threads : pc[t] \in {"idle", "setex"}
    /\ ip_whitelist' = remove_ip_db({ip})
    /\ redis_whitelist' = remove_ip_cache({ip})
    /\ removed_at' = remove_ip_removed({ip})
    /\ ret' = IF remove_ip_ret THEN Ok(0, ip) ELSE Fail("Failed to remove IP")
    /\ UNCHANGED <<obVars, apiVars, cfgVars, gateVars, now, ticks, envVars, resource_pools,
                   resource_allocations, customers, managers, lock, dbLock,
                   next_uuid, pc, loc>>

\* is_ip_allowed as concurrent requests run it: the cache read and the SELECT
\* first, the write-through of the row found and the return after it.

\* redis_client.get; on a miss the SELECT ... WHERE ip_address = ? AND
\* is_active = 1 and the comparison of expires_at.
IsAllowedRead(t, ip) ==
    /\ app = "proxy"
    /\ pc[t] = "idle"
    /\ IF CacheRaises
       THEN /\ ret' = Fail("cache error")
            /\ UNCHANGED <<pc, loc>>
       ELSE IF CacheHit(ip)
       THEN /\ ret' = Ok(redis_whitelist[ip][1].customer_id, ip)
            /\ UNCHANGED <<pc, loc>>
       ELSE IF DbHit(ip)
       THEN /\ pc' = [pc EXCEPT ![t] = "setex"]
            /\ loc' = [loc EXCEPT ![t] = [NoLoc EXCEPT !.ip = ip,
                                           !.result = ip_whitelist[ip]]]
            /\ UNCHANGED ret
       ELSE /\ ret' = Fail("Access denied")
            /\ UNCHANGED <<pc, loc>>
    /\ UNCHANGED <<obVars, apiVars, cfgVars, gateVars, now, ticks, envVars, wlVars, resource_pools,
                   resource_allocations, customers, managers, lock, dbLock,
                   next_uuid>>

\* redis_client.setex(cache_key, self.cache_timeout, json.dumps(data)) with
\* the row the SELECT returned, then return True, data.  A setex that raises
\* is caught by the except clause, which returns False, None.
IsAllowedSetex(t) ==
    /\ pc[t] = "setex"
    /\ IF CacheRaises
       THEN /\ ret' = Fail("Access denied")
            /\ UNCHANGED redis_whitelist
       ELSE /\ redis_whitelist' =
                 IF REDIS_AVAILABLE
                 THEN [redis_whitelist EXCEPT ![loc[t].ip] =
                         <<CacheEntry(loc[t].result[1].customer_id,
                                      loc[t].result[1].plan_type,
                                      loc[t].result[1].rate_limit,
                                      loc[t].result[1].expires_at)>>]
                 ELSE redis_whitelist
            /\ ret' = Ok(loc[t].result[1].customer_id, loc[t].ip)
    /\ pc' = [pc EXCEPT ![t] = "idle"]
    /\ loc' = [loc EXCEPT ![t] = NoLoc]
    /\ UNCHANGED <<obVars, apiVars, cfgVars, gateVars, now, ticks, envVars, ip_whitelist, removed_at,
                   resource_pools, resource_allocations, customers, managers,
                   lock, dbLock, next_uuid>>

----------------------------------------------------------------------------
(* APIManager and require_api_key *)

\* The rows of create_default_endpoints with a rate_limit_override.
StatsOverride == 10
BatchOverride == 5

\* The routes of create_api_endpoints: the name Flask gives the view function
\* (request.endpoint), its path and the plan its decorator requires.
Routes ==
    {[endpoint |-> "api_ping", path |-> "/api/v1/ping", required_plan |-> "basic"],
     [endpoint |-> "api_stats", path |-> "/api/v1/stats", required_plan |-> "basic"],
     [endpoint |-> "api_batch", path |-> "/api/v1/batch",
      required_plan |-> "enterprise"]}

Paths == {r.path : r \in Routes}

\* Table api_endpoints as create_default_endpoints fills it, keyed by its
\* UNIQUE path; rate_limit_override 0 stands for NULL.
api_endpoints ==
    [p \in Paths |->
        [rate_limit_override |-> IF p = "/api/v1/stats" THEN StatsOverride
                                 ELSE IF p = "/api/v1/batch" THEN BatchOverride
                                 ELSE 0,
         is_active |-> TRUE]]

\* plan_limits; an unknown plan gets the limits of basic.
per_minute(plan) ==
    IF plan = "premium" THEN 500 ELSE IF plan = "enterprise" THEN 2000 ELSE 100

per_day(plan) ==
    IF plan = "premium" THEN 50000 ELSE IF plan = "enterprise" THEN 200000
    ELSE 10000

\* limits['per_minute'] after the SELECT rate_limit_override ... WHERE path = ?
\* AND is_active = 1: a row with a non-null, non-zero override replaces it.
limits_per_minute(endpoint, plan) ==
    IF /\ endpoint \in DOMAIN api_endpoints
       /\ api_endpoints[endpoint].is_active
       /\ api_endpoints[endpoint].rate_limit_override # 0
    THEN api_endpoints[endpoint].rate_limit_override
    ELSE per_minute(plan)

\* timedelta(minutes=1)
ApiWindow == 60

\* The local requests_count and daily_count after the two window resets, for
\* a key that has a row.
api_requests_count(key) ==
    IF now - api_rate_limits[key][1].window_start > ApiWindow THEN 0
    ELSE api_rate_limits[key][1].requests_count

api_window_start(key) ==
    IF now - api_rate_limits[key][1].window_start > ApiWindow THEN now
    ELSE api_rate_limits[key][1].window_start

api_daily_count(key) ==
    IF now - api_rate_limits[key][1].daily_reset > SecondsPerDay THEN 0
    ELSE api_rate_limits[key][1].daily_count

api_daily_reset(key) ==
    IF now - api_rate_limits[key][1].daily_reset > SecondsPerDay THEN now
    ELSE api_rate_limits[key][1].daily_reset

\* What check_rate_limit returns: the flag, and of the dictionary the limit
\* applied (0 when the dictionary does not tell), remaining_minute and error.
ApiResult(ok, limit, remaining, error) ==
    [ok |-> ok, limit |-> limit, remaining |-> remaining, error |-> error]

\* The return after the INSERT of a key's first row: the dictionary is built
\* from requests_count, which only the branch for an existing row assigns;
\* the UnboundLocalError is caught by the except clause, after the commit.
api_first_result(L) == ApiResult(FALSE, 0, 0, "Rate limit check failed")

api_check_result(key, endpoint, plan) ==
    LET L == limits_per_minute(endpoint, plan)
    IN IF api_rate_limits[key] = <<>> THEN api_first_result(L)
       ELSE IF api_requests_count(key) >= L
       THEN ApiResult(FALSE, L, 0, "Rate limit exceeded")
       ELSE IF api_daily_count(key) >= per_day(plan)
       THEN ApiResult(FALSE, per_day(plan), 0, "Daily limit exceeded")
       ELSE ApiResult(TRUE, L, L - (api_requests_count(key) + 1), "")

\* The table after the call: INSERT for a key without a row, UPDATE of the
\* four columns for an admitted call, nothing for a denied one.
api_check_write(key, endpoint, plan) ==
    IF api_rate_limits[key] = <<>>
    THEN [api_rate_limits EXCEPT ![key] =
            <<[requests_count |-> 1, window_start |-> now,
               daily_count |-> 1, daily_reset |-> now]>>]
    ELSE IF api_check_result(key, endpoint, plan).ok
    THEN [api_rate_limits EXCEPT ![key] =
            <<[requests_count |-> api_requests_count(key) + 1,
               window_start |-> api_window_start(key),
               daily_count |-> api_daily_count(key) + 1,
               daily_reset |-> api_daily_reset(key)]>>]
    ELSE api_rate_limits

NoApiCheck == [n |-> 0, api_key |-> "", endpoint |-> "", plan_type |-> "",
               result |-> ApiResult(FALSE, 0, 0, "")]

api_checked_next(key, endpoint, plan) ==
    [n |-> api_checked.n + 1, api_key |-> key, endpoint |-> endpoint,
     plan_type |-> plan, result |-> api_check_result(key, endpoint, plan)]

\* A direct call of APIManager.check_rate_limit(api_key, endpoint, plan_type).
ApiCheckRateLimit(key, endpoint, plan) ==
    /\ api_checked.n < MaxApiCalls
    /\ api_checked' = api_checked_next(key, endpoint, plan)
    /\ api_rate_limits' = api_check_write(key, endpoint, plan)
    /\ UNCHANGED <<obVars, cfgVars, gateVars, now, ticks, envVars, wlVars, crmVars,
                   api_keys, api_usage, api_resp>>

\* validate_api_key: the key's row joined with its customer; the key active,
\* the customer's status 'active', expires_at NULL (0) or not before now.
validate_api_key(key) ==
    /\ key \in DOMAIN api_keys
    /\ api_keys[key] # <<>>
    /\ \E c \in customers : c.customer_id = api_keys[key][1].customer_id
    /\ api_keys[key][1].is_active
    /\ \A c \in customers :
          c.customer_id = api_keys[key][1].customer_id => c.status = "active"
    /\ ~(api_keys[key][1].expires_at # 0 /\ api_keys[key][1].expires_at < now)

\* customer_info['plan_type'] of a key that validates.
plan_type_of(key) ==
    (CHOOSE c \in customers : c.customer_id = api_keys[key][1].customer_id).plan_type

\* A variant of the plan comparison that lets every plan through.
plan_allows_any(plan, required_plan) == TRUE

\* plan_hierarchy: customer_plan_level >= required_plan_level.
plan_hierarchy(plan) ==
    IF plan = "premium" THEN 1 ELSE IF plan = "enterprise" THEN 2 ELSE 0

plan_allows(plan, required_plan) ==
    plan_hierarchy(plan) >= plan_hierarchy(required_plan)

NoApiResp == [n |-> 0, api_key |-> "", endpoint |-> "", status |-> 0,
              handled |-> FALSE]

ApiResp(key, route, status) ==
    [n |-> api_resp.n + 1, api_key |-> key, endpoint |-> route.endpoint,
     status |-> status, handled |-> status = 200]

\* log_api_usage after the handler: the api_usage row and total_requests.
log_api_usage(key, route) ==
    Append(api_usage, [api_key |-> key, endpoint |-> route.endpoint,
                       status_code |-> 200])

\* require_api_key(route.required_plan) around the handler of a route, for a
\* request that supplies key ("" for none).  check_rate_limit is given
\* request.endpoint, the name of the view function.
ApiRequest(key, route) ==
    /\ api_resp.n < MaxRequests
    /\ api_checked.n < MaxApiCalls
    /\ IF key = "" \/ ~validate_api_key(key)
       THEN /\ api_resp' = ApiResp(key, route, 401)
            /\ UNCHANGED <<api_rate_limits, api_checked, api_usage, api_keys>>
       ELSE IF ~plan_allows(plan_type_of(key), route.required_plan)
       THEN /\ api_resp' = ApiResp(key, route, 403)
            /\ UNCHANGED <<api_rate_limits, api_checked, api_usage, api_keys>>
       ELSE /\ api_checked' = api_checked_next(key, route.endpoint, plan_type_of(key))
            /\ api_rate_limits' =
                  api_check_write(key, route.endpoint, plan_type_of(key))
            /\ IF api_check_result(key, route.endpoint, plan_type_of(key)).ok
               THEN /\ api_resp' = ApiResp(key, route, 200)
                    /\ api_usage' = log_api_usage(key, route)
                    /\ api_keys' = [api_keys EXCEPT ![key] =
                                      <<[api_keys[key][1] EXCEPT
                                           !.total_requests = @ + 1]>>]
               ELSE /\ api_resp' = ApiResp(key, route, 429)
                    /\ UNCHANGED <<api_usage, api_keys>>
    /\ UNCHANGED <<obVars, cfgVars, gateVars, now, ticks, envVars, wlVars, crmVars>>

----------------------------------------------------------------------------
(* AutomatedOnboardingManager *)

Events == 1 .. MaxEvents

\* paypal_transaction_id values of the webhooks; the column is UNIQUE.
TxnIds == {"I-1", "I-2"}

\* steps of _execute_onboarding_flow, in the order of the list.
Steps == <<"validate_payment", "create_customer", "allocate_resources",
           "configure_whitelist", "setup_monitoring", "send_welcome_email",
           "notify_admin">>

\* Positions of a flow: 0 before _store_onboarding_event, i before step i,
\* Len(Steps) + 1 before _complete_onboarding, FlowDone after the flow.
FlowDone == Len(Steps) + 2

\* _store_onboarding_event, the first statement of the flow.  A second event
\* with a known paypal_transaction_id violates the UNIQUE constraint: the
\* outer except calls _mark_onboarding_failed, whose UPDATE finds no row.
ObStore(e, email, plan, txn) ==
    /\ app = "proxy"
    /\ flow[e] = 0
    /\ IF \E f \in Events :
             /\ onboarding_events[f] # <<>>
             /\ onboarding_events[f][1].paypal_transaction_id = txn
       THEN /\ flow' = [flow EXCEPT ![e] = FlowDone]
            /\ UNCHANGED onboarding_events
       ELSE /\ onboarding_events' =
                 [onboarding_events EXCEPT ![e] =
                    <<[customer_email |-> email, plan_type |-> plan,
                       paypal_transaction_id |-> txn, customer_id |-> 0,
                       onboarding_status |-> "pending"]>>]
            /\ flow' = [flow EXCEPT ![e] = 1]
    /\ UNCHANGED <<onboarding_steps, customer_monitoring, apiVars, cfgVars,
                   gateVars, now, ticks, envVars, wlVars, crmVars>>

\* The pool rows _allocate_resource may return inside create_customer, 0 for
\* None.
ob_candidates(plan) == IF Eligible(plan) = {} THEN {0} ELSE Eligible(plan)

\* create_customer called by _create_customer_account returns success: the
\* INSERT of the customer passes the UNIQUE email, a pool row was found and
\* add_ip returned True.
create_customer_ok(email, plan, p) ==
    /\ \A c \in customers : c.email # email
    /\ p # 0
    /\ add_ip_ret(resource_pools[p].ip_address)

\* The address of the customer's resource that _configure_ip_whitelist
\* verifies (create_customer allocates one resource).
ob_resource_ip(cid) ==
    resource_allocations[CHOOSE a \in get_customer_resources(cid) : TRUE].ip_address

\* Step i of the flow of event e returns without an exception.  smtp tells
\* whether _send_email gets its message through.
step_completes(e, i, p, smtp) ==
    LET ev == onboarding_events[e][1]
        cid == ev.customer_id
    IN CASE i = 1 -> TRUE
         [] i = 2 -> create_customer_ok(ev.customer_email, ev.plan_type, p)
         [] i = 3 -> get_customer_resources(cid) # {}
         [] i = 4 -> \/ get_customer_resources(cid) = {}
                     \/ is_ip_allowed(ob_resource_ip(cid)).kind = "allowed"
         [] i = 5 -> customer_monitoring.exists
         [] i = 6 -> /\ \E c \in customers : c.customer_id = cid
                     /\ get_customer_resources(cid) # {}
                     /\ smtp
         [] OTHER -> smtp

\* A variant of the loop that goes on to the next step after a failed one.
next_step_continue(i, ok) == i + 1

\* The loop: the next step after a completed one; the exception of a failed
\* step is raised again and ends the flow.
next_step(i, ok) == IF ok THEN i + 1 ELSE FlowDone

\* One iteration of the loop for event e: _record_step_start, the step
\* function, then _record_step_completion, or _record_step_error and, by
\* the outer except, _mark_onboarding_failed.  Step 2 is create_customer with
\* everything it writes; step 4 is_ip_allowed with its write-through; step 5
\* the INSERT into customer_monitoring, which comes before the CREATE TABLE.
ObStep(e, smtp) ==
    /\ app = "proxy"
    /\ flow[e] \in 1 .. Len(Steps)
    /\ flow[e] = 2 => next_uuid < MaxCalls
    /\ LET i == flow[e]
           ev == onboarding_events[e][1]
           cid == ev.customer_id
           plan == ev.plan_type
       IN \E p \in (IF i = 2 THEN ob_candidates(plan) ELSE {0}) :
            LET ok == step_completes(e, i, p, smtp)
                new == next_uuid + 1
                inserted == i = 2 /\ \A c \in customers : c.email # ev.customer_email
                added == inserted /\ p # 0
                created == i = 2 /\ ok
                ip == IF added THEN resource_pools[p].ip_address
                      ELSE IF i = 4 /\ get_customer_resources(cid) # {}
                      THEN ob_resource_ip(cid)
                      ELSE ""
            IN /\ onboarding_steps' =
                    [onboarding_steps EXCEPT ![e] =
                       Append(@, [step_name |-> Steps[i],
                                  step_status |-> IF ok THEN "completed"
                                                  ELSE "failed"])]
               /\ flow' = [flow EXCEPT ![e] = next_step(i, ok)]
               /\ onboarding_events' =
                    [onboarding_events EXCEPT ![e] =
                       <<[ev EXCEPT
                            !.customer_id = IF created THEN new ELSE @,
                            !.onboarding_status = IF ok THEN @ ELSE "failed"]>>]
               /\ next_uuid' = IF i = 2 THEN new ELSE next_uuid
               /\ customers' =
                    IF created
                    THEN customers \cup
                           {[customer_id |-> new, email |-> ev.customer_email,
                             plan_type |-> plan, status |-> "active"]}
                    ELSE customers
               /\ resource_pools' =
                    IF created
                    THEN [resource_pools EXCEPT ![p].is_available = FALSE]
                    ELSE resource_pools
               /\ resource_allocations' =
                    IF created
                    THEN Append(resource_allocations,
                           [customer_id |-> new,
                            ip_address |-> resource_pools[p].ip_address,
                            port_start |-> resource_pools[p].port_start,
                            port_end |-> resource_pools[p].port_end,
                            resource_type |-> ResourceTypeOf(plan),
                            expires_at |-> now + Lease, is_active |-> TRUE])
                    ELSE resource_allocations
               /\ ip_whitelist' =
                    IF added
                    THEN add_ip_db(ip, new, plan, RateLimitOf(plan), LeaseDays)
                    ELSE ip_whitelist
               /\ redis_whitelist' =
                    IF added
                    THEN add_ip_cache(ip, new, plan, RateLimitOf(plan), LeaseDays)
                    ELSE IF ip # "" THEN is_ip_allowed_cache(ip)
                    ELSE redis_whitelist
               /\ removed_at' = IF added THEN add_ip_removed(ip) ELSE removed_at
               /\ customer_monitoring' =
                    IF i = 5 /\ ok
                    THEN [customer_monitoring EXCEPT !.rows = @ \cup {cid}]
                    ELSE customer_monitoring
    /\ UNCHANGED <<apiVars, cfgVars, gateVars, now, ticks, envVars, managers,
                   lock, dbLock, pc, loc, ret>>

\* _complete_onboarding, after the loop has run through.
ObComplete(e) ==
    /\ flow[e] = Len(Steps) + 1
    /\ onboarding_events' =
          [onboarding_events EXCEPT ![e] =
             <<[onboarding_events[e][1] EXCEPT
                  !.onboarding_status = "completed"]>>]
    /\ flow' = [flow EXCEPT ![e] = FlowDone]
    /\ UNCHANGED <<onboarding_steps, customer_monitoring, apiVars, cfgVars,
                   gateVars, now, ticks, envVars, wlVars, crmVars>>

----------------------------------------------------------------------------
(* Specifications *)

\* The API tables before any key is generated.
InitApiEmpty ==
    /\ api_keys = [k \in {"fpk_1"} |-> <<>>]
    /\ api_rate_limits = [k \in {"fpk_1"} |-> <<>>]
    /\ api_usage = <<>>
    /\ api_resp = NoApiResp
    /\ api_checked = NoApiCheck

InitBase ==
    /\ now = 0
    /\ ticks = 0
    /\ REDIS_AVAILABLE \in BOOLEAN
    /\ redisUp = REDIS_AVAILABLE
    /\ dbUp = TRUE
    /\ ip_whitelist = [ip \in AllIPs |-> <<>>]
    /\ redis_whitelist = [ip \in AllIPs |-> <<>>]
    /\ removed_at = [ip \in AllIPs |-> NoRemoval]
    /\ rate_limits = [ip \in AllIPs |-> <<>>]
    /\ redis_rate = [ip \in AllIPs |-> <<>>]
    /\ usage_logs = <<>>
    /\ resp = NoResp
    /\ checked = NoCheck
    /\ called = [ip \in AllIPs |-> [k |-> 0, since |-> 0]]
    /\ resource_allocations = <<>>
    /\ managers = 1
    /\ lock = [m \in 1 .. MaxManagers |-> 0]
    /\ dbLock = 0
    /\ next_uuid = 0
    /\ pc = [t \in Threads |-> "idle"]
    /\ loc = [t \in Threads |-> NoLoc]
    /\ ret = NoRet

\* The onboarding tables as init_database creates them; it does not create
\* customer_monitoring.
InitObEmpty ==
    /\ onboarding_events = [e \in Events |-> <<>>]
    /\ onboarding_steps = [e \in Events |-> <<>>]
    /\ flow = [e \in Events |-> 0]

InitCommon ==
    /\ InitBase
    /\ customers = {}
    /\ InitApiEmpty
    /\ InitObEmpty
    /\ customer_monitoring = [exists |-> FALSE, rows |-> {}]

\* The proxy application with its CustomerResourceManager constructed.
Init ==
    /\ InitCommon
    /\ app = "proxy"
    /\ DATABASE_URL = "sqlite"
    /\ tz = 0
    /\ resource_pools = init_resource_pools(<<>>)

\* Either application, its pool seeded.
InitProvision ==
    /\ InitCommon
    /\ tz = 0
    /\ \/ /\ app = "proxy"
          /\ DATABASE_URL = "sqlite"
          /\ resource_pools = init_resource_pools(<<>>)
       \/ /\ app = "ultimate"
          /\ DATABASE_URL \in {"sqlite", "server"}
          /\ resource_pools = ult_init_resource_pools(<<>>)

Create ==
    \/ \E t \in Threads, m \in 1 .. MaxManagers, e \in Emails, p \in Plans :
          CreateBegin(t, m, e, p)
    \/ \E t \in Threads : CreateInsert(t)
    \/ \E t \in Threads : CreateAllocate(t)
    \/ \E t \in Threads : CreateAddIp(t)
    \/ \E t \in Threads : CreateCommit(t)

Cleanup ==
    \/ \E t \in Threads, m \in 1 .. MaxManagers : CleanupSelect(t, m)
    \/ \E t \in Threads : CleanupApply(t)

UltCreate ==
    \/ \E t \in Threads, e \in Emails, p \in Plans : UltCreateBegin(t, e, p)
    \/ \E t \in Threads : UltAllocate(t)
    \/ \E t \in Threads : UltAddToWhitelist(t)
    \/ \E t \in Threads : UltCommitConflict(t)
    \/ \E t \in Threads : UltCommit(t)

\* Provisioning, expiry and reclamation in the proxy application.
Next ==
    \/ Create
    \/ Cleanup
    \/ \E cid \in 1 .. MaxCalls : CleanupExpiredCustomer(cid)
    \/ \E d \in TickSteps : Tick(d)
    \/ \E ip \in PoolIPs : IsIpAllowed(ip)
    \/ DbFail
    \/ DbRecover

Spec == Init /\ [][Next]_vars

\* Concurrent provisioning in either application, with several managers on
\* one database and with failing stores.
NextProvision ==
    \/ Create
    \/ NewManager
    \/ UltCreate
    \/ DbFail
    \/ DbRecover
    \/ RedisFail
    \/ RedisRecover

SpecProvision == InitProvision /\ [][NextProvision]_vars

\* The whitelist and the request gate of the proxy application.
InitGate == Init

NextGate ==
    \/ \E ip \in FormIPs, days \in ExpiresDays : AddIp(ip, 1, "basic", days)
    \/ \E ip \in ClientIPs : RemoveIp(ip)
    \/ \E ip \in ClientIPs, h \in HandlerOutcomes : Request(ip, h)
    \/ \E d \in GateTickSteps : Tick(d)
    \/ DbFail
    \/ DbRecover
    \/ RedisFail
    \/ RedisRecover

SpecGate == InitGate /\ [][NextGate]_vars

\* check_rate_limit of either application called in sequence, on a server
\* in any time zone.
InitRate ==
    /\ InitCommon
    /\ DATABASE_URL = "sqlite"
    /\ tz \in TzOffsets
    /\ \/ /\ app = "proxy"
          /\ resource_pools = init_resource_pools(<<>>)
       \/ /\ app = "ultimate"
          /\ resource_pools = ult_init_resource_pools(<<>>)

UltClientIPs == {"127.0.0.1"}

NextRate ==
    \/ \E ip \in ClientIPs, L \in Limits : CheckRateLimit(ip, L)
    \/ \E ip \in UltClientIPs, L \in Limits : UltCheckRateLimit(ip, L)
    \/ \E d \in RateTickSteps : Tick(d)
    \/ DbFail
    \/ DbRecover
    \/ RedisFail
    \/ RedisRecover

SpecRate == InitRate /\ [][NextRate]_vars

\* The database path of check_rate_limit called from concurrent requests.
InitRateRace ==
    /\ Init
    /\ ~REDIS_AVAILABLE

NextRateRace ==
    \/ \E t \in Threads, ip \in ClientIPs, L \in Limits : RateSelect(t, ip, L)
    \/ \E t \in Threads : RateWrite(t)
    \/ \E d \in RateTickSteps : Tick(d)
    \/ DbFail
    \/ DbRecover

SpecRateRace == InitRateRace /\ [][NextRateRace]_vars

\* The cache path of check_rate_limit called from concurrent requests, with a
\* cache that can stop answering between two commands.
InitRateCache ==
    /\ Init
    /\ REDIS_AVAILABLE

NextRateCache ==
    \/ \E t \in Threads, ip \in ClientIPs, L \in Limits : CacheIncr(t, ip, L)
    \/ \E t \in Threads : CacheExpire(t)
    \/ \E d \in RateTickSteps : Tick(d)
    \/ RedisFail
    \/ RedisRecover

SpecRateCache == InitRateCache /\ [][NextRateCache]_vars

\* Whitelist lookups of concurrent requests while addresses are added and
\* removed and the stores fail.
InitStale == Init

NextStale ==
    \/ \E ip \in FormIPs, days \in ExpiresDays : AddIp(ip, 1, "basic", days)
    \/ \E ip \in ClientIPs : RemoveIp(ip)
    \/ \E t \in Threads, ip \in ClientIPs : IsAllowedRead(t, ip)
    \/ \E t \in Threads : IsAllowedSetex(t)
    \/ \E d \in StaleTickSteps : Tick(d)
    \/ DbFail
    \/ DbRecover
    \/ RedisFail
    \/ RedisRecover

SpecStale == InitStale /\ [][NextStale]_vars

\* The request wrapper of either application, with the operations that make
\* an address allowed and not allowed.
InitWrap ==
    /\ InitCommon
    /\ tz = 0
    /\ DATABASE_URL = "sqlite"
    /\ \/ /\ app = "proxy"
          /\ resource_pools = init_resource_pools(<<>>)
       \/ /\ app = "ultimate"
          /\ resource_pools = ult_init_resource_pools(<<>>)

NextWrap ==
    \/ \E ip \in FormIPs, days \in ExpiresDays : AddIp(ip, 1, "basic", days)
    \/ \E ip \in ClientIPs : RemoveIp(ip)
    \/ \E ip \in ClientIPs, h \in HandlerOutcomes : Request(ip, h)
    \/ \E p \in Plans : UltCreateBegin(1, "a@x", p)
    \/ UltAllocate(1)
    \/ UltAddToWhitelist(1)
    \/ UltCommit(1)
    \/ \E ip \in UltClientIPs, h \in HandlerOutcomes : UltRequest(ip, h)
    \/ \E d \in GateTickSteps : Tick(d)
    \/ DbFail
    \/ DbRecover
    \/ RedisFail
    \/ RedisRecover

SpecWrap == InitWrap /\ [][NextWrap]_vars

\* The API key path: one customer with one generated key, which may have
\* been deactivated or given an expiry, and whose customer may have expired.
SuppliedKeys == {"", "fpk_1", "fpk_x"}
KeyExpiries == {0, window_duration \div 2, Lease}
DirectEndpoints == {"/api/v1/batch", "/api/v1/stats"}

InitApi ==
    /\ InitBase
    /\ app = "proxy"
    /\ DATABASE_URL = "sqlite"
    /\ tz = 0
    /\ resource_pools = init_resource_pools(<<>>)
    /\ \E p \in Plans, st \in {"active", "expired"} :
          customers = {[customer_id |-> 1, email |-> "a@x", plan_type |-> p,
                        status |-> st]}
    /\ \E act \in BOOLEAN, exp \in KeyExpiries :
          api_keys = [k \in {"fpk_1"} |->
                        <<[customer_id |-> 1, is_active |-> act,
                           expires_at |-> exp, total_requests |-> 0]>>]
    /\ api_rate_limits = [k \in {"fpk_1"} |-> <<>>]
    /\ api_usage = <<>>
    /\ api_resp = NoApiResp
    /\ api_checked = NoApiCheck
    /\ InitObEmpty
    /\ customer_monitoring = [exists |-> FALSE, rows |-> {}]

NextApi ==
    \/ \E key \in SuppliedKeys, route \in Routes : ApiRequest(key, route)
    \/ \E d \in RateTickSteps : Tick(d)

SpecApi == InitApi /\ [][NextApi]_vars

\* APIManager.check_rate_limit called in sequence for one key.
NextApiRate ==
    \/ \E e \in DirectEndpoints : ApiCheckRateLimit("fpk_1", e, "basic")
    \/ \E d \in RateTickSteps : Tick(d)

SpecApiRate == InitApi /\ [][NextApiRate]_vars

\* Onboarding flows in the proxy application, on a database that holds the
\* table customer_monitoring or, as init_database leaves it, does not.
InitOnboarding ==
    /\ InitBase
    /\ customers = {}
    /\ InitApiEmpty
    /\ InitObEmpty
    /\ \E x \in BOOLEAN : customer_monitoring = [exists |-> x, rows |-> {}]
    /\ app = "proxy"
    /\ DATABASE_URL = "sqlite"
    /\ tz = 0
    /\ resource_pools = init_resource_pools(<<>>)

NextOnboarding ==
    \/ \E e \in Events, email \in Emails, plan \in Plans, txn \in TxnIds :
          ObStore(e, email, plan, txn)
    \/ \E e \in Events, smtp \in BOOLEAN : ObStep(e, smtp)
    \/ \E e \in Events : ObComplete(e)
    \/ DbFail
    \/ DbRecover
    \/ RedisFail
    \/ RedisRecover

SpecOnboarding == InitOnboarding /\ [][NextOnboarding]_vars

----------------------------------------------------------------------------
(* Properties of provisioning *)

EntryOf(row) == <<row.ip_address, row.port_start, row.port_end>>

ActiveOn(entry) ==
    {a \in DOMAIN resource_allocations :
        /\ resource_allocations[a].is_active
        /\ EntryOf(resource_allocations[a]) = entry}

\* C1: create_customer calls racing for the pool, through one manager or
\* several on one database: no two successful calls are given the same
\* (ip_address, port_start, port_end), and no more calls succeed for a
\* resource type than the pool has rows of it.
C1_DistinctEntries ==
    app = "proxy" =>
        /\ \A a, b \in DOMAIN resource_allocations :
              a # b => EntryOf(resource_allocations[a])
                         # EntryOf(resource_allocations[b])
        /\ \A rt \in {"ip_only", "ip_port", "port_range"} :
              Cardinality({a \in DOMAIN resource_allocations :
                             resource_allocations[a].resource_type = rt})
                <= Cardinality({p \in DOMAIN resource_pools :
                             resource_pools[p].resource_type = rt})

\* C2: under any interleaving of create_customer and
\* cleanup_expired_resources, a pool row is unavailable exactly when one
\* active allocation references its (ip_address, port_start, port_end).
C2_PoolMatchesAllocations ==
    \A p \in DOMAIN resource_pools :
        (~resource_pools[p].is_available)
            <=> Cardinality(ActiveOn(EntryOf(resource_pools[p]))) = 1

\* What is_ip_allowed answers for the address create_customer has just
\* returned, when the database can be read and the cache does not raise.
C3_Post ==
    (ret.ok /\ dbUp /\ ~CacheRaises) =>
        /\ is_ip_allowed(ret.ip).kind = "allowed"
        /\ is_ip_allowed(ret.ip).customer_id = ret.customer_id
        /\ \E c \in customers :
              /\ c.customer_id = ret.customer_id
              /\ c.plan_type = is_ip_allowed(ret.ip).plan_type

\* C3: when create_customer returns success, an immediate is_ip_allowed on
\* the allocated address answers Allowed with the new customer's id and plan,
\* with the cache or without it.
C3_AllowedAfterCreate ==
    [][(\E t \in Threads : pc[t] = "commit" /\ pc'[t] = "idle") => C3_Post']_vars

C3_Witness ==
    /\ app = "proxy"
    /\ ret.ok
    /\ ~REDIS_AVAILABLE
    /\ dbUp
    /\ is_ip_allowed(ret.ip).customer_id = ret.customer_id

\* C4: when cleanup_expired_resources releases an expired allocation, every
\* pool row of its entry is available again and is_ip_allowed on its address
\* answers Denied.
C4_ReleasedThenDenied ==
    [][\A t \in Threads :
          (pc[t] = "cleanup" /\ pc'[t] = "idle") =>
              \A a \in loc[t].expired :
                  resource_allocations'[a].is_active = FALSE =>
                      /\ \A p \in DOMAIN resource_pools :
                            EntryOf(resource_pools[p])
                                = EntryOf(resource_allocations[a])
                              => resource_pools'[p].is_available
                      /\ \A ip \in PoolIPs :
                            ip = resource_allocations[a].ip_address
                              => (is_ip_allowed(ip).kind = "denied")']_vars

\* C8: create_customer_from_paypal calls racing for the pool are never given
\* the same pool entry.
C8_DistinctPoolEntries ==
    app = "ultimate" =>
        \A a, b \in DOMAIN resource_allocations :
            a # b => EntryOf(resource_allocations[a])
                       # EntryOf(resource_allocations[b])

\* C9: when add_ip fails inside create_customer the call returns failure and
\* its work is rolled back: the chosen pool row is still available, and no
\* allocation row and no customer row of the call exists.
C9_RollbackOnWhitelistFailure ==
    [][\A t \in Threads :
          (pc[t] = "add_ip" /\ pc'[t] = "idle") =>
              /\ ret'.ok = FALSE
              /\ resource_pools'[loc[t].pool].is_available
              /\ \A a \in DOMAIN resource_allocations' :
                    resource_allocations'[a].customer_id # loc[t].customer_id
              /\ \A c \in customers' : c.customer_id # loc[t].customer_id]_vars

C9_Witness ==
    /\ ret.error = "Failed to add to whitelist"
    /\ customers # {}

\* C10: when no pool row can be found for the plan, create_customer and
\* create_customer_from_paypal return failure and no customer row of the
\* call is persisted.
C10_NoResourceNoCustomer ==
    [][\A t \in Threads :
          (pc[t] \in {"allocate", "u_allocate"} /\ pc'[t] = "idle") =>
              /\ ret'.ok = FALSE
              /\ \A c \in customers' : c.customer_id # loc[t].customer_id
              /\ \A a \in DOMAIN resource_allocations' :
                    resource_allocations'[a].customer_id # loc[t].customer_id]_vars

C10_Witness ==
    /\ app = "proxy"
    /\ ret.error = "No available resources for plan type"

C10_WitnessPaypal ==
    /\ app = "ultimate"
    /\ ret.error = "No available resources"

----------------------------------------------------------------------------
(* Properties of the request gate *)

\* The counter check_rate_limit keeps for ip, and the seconds that have
\* really passed since its window was opened.
RateCount(ip) ==
    IF REDIS_AVAILABLE
    THEN IF redis_rate[ip] = <<>> THEN 0 ELSE redis_rate[ip][1].count
    ELSE IF rate_limits[ip] = <<>> THEN 0 ELSE rate_limits[ip][1].requests_count

WindowAge(ip) ==
    IF REDIS_AVAILABLE
    THEN now - (redis_rate[ip][1].ttl - window_duration)
    ELSE CURRENT_TIMESTAMP - rate_limits[ip][1].window_start

InWindow(ip) == RateCount(ip) > 0 /\ WindowAge(ip) < window_duration
RolledOver(ip) == RateCount(ip) = 0 \/ WindowAge(ip) > window_duration

\* C5: check_rate_limit(ip, L) called in sequence, on the cache path and on
\* the database path: inside an open 60-second window call number k is
\* allowed exactly when k <= L (the first L are allowed, call L+1 is denied),
\* and the first call after the window has rolled over is allowed and
\* restarts the counter at 1.
C5_WindowCounting ==
    [][\A ip \in ClientIPs :
          (checked'.n = checked.n + 1 /\ checked'.ip = ip
             /\ checked'.result # "raised") =>
              /\ InWindow(ip) =>
                    /\ RateCount(ip)' = RateCount(ip) + 1
                    /\ (checked'.result = "allowed")
                         <=> (RateCount(ip) + 1 <= checked'.limit)
              /\ RolledOver(ip) =>
                    /\ RateCount(ip)' = 1
                    /\ checked'.result = "allowed"]_vars

\* C6: is_ip_allowed never answers Allowed for an address whose whitelist row
\* has expires_at <= now, whatever the cache holds for it.
C6_ExpiredNeverAllowed ==
    \A ip \in ClientIPs :
        (ip_whitelist[ip] # <<>> /\ ip_whitelist[ip][1].expires_at <= now)
            => is_ip_allowed(ip).kind # "allowed"

\* C7: while the database cannot be used and the cache holds no entry for
\* the address, a request through require_whitelisted_ip never runs the
\* handler: is_ip_allowed answers (False, None) and the request is refused.
C7_FailClosed ==
    [][\A ip \in ClientIPs :
          (resp'.n = resp.n + 1 /\ resp'.ip = ip /\ ~dbUp
             /\ redis_whitelist[ip] = <<>>) =>
              /\ resp'.handled = FALSE
              /\ resp'.status # 200
              /\ ~CacheRaises =>
                    /\ is_ip_allowed(ip) = Denied
                    /\ resp'.status = 403]_vars

C7_Witness ==
    /\ resp.status = 403
    /\ ~dbUp
    /\ ~CacheRaises
    /\ redis_whitelist[resp.ip] = <<>>
    /\ DbHit_during_outage(resp.ip)

----------------------------------------------------------------------------
(* Properties of the allocator's choice *)

ReservedFor(plan) ==
    {p \in DOMAIN resource_pools :
        /\ resource_pools[p].is_available
        /\ resource_pools[p].reserved_for_plan = plan}

AnyIpOnly ==
    {p \in DOMAIN resource_pools :
        /\ resource_pools[p].is_available
        /\ resource_pools[p].resource_type = "ip_only"}

\* C11: _allocate_resource of CustomerResourceManager follows the order
\* exact tier, then any ip_only row, then fail: it chooses an available row
\* reserved for the plan when there is one, else an available ip_only row
\* when there is one, and returns no resource only when there is neither.
C11_FallbackOrder ==
    [][\A t \in Threads :
          (pc[t] = "allocate" /\ pc'[t] # "allocate") =>
              IF ReservedFor(loc[t].plan) # {}
              THEN pc'[t] = "add_ip" /\ loc'[t].pool \in ReservedFor(loc[t].plan)
              ELSE IF AnyIpOnly # {}
              THEN pc'[t] = "add_ip" /\ loc'[t].pool \in AnyIpOnly
              ELSE pc'[t] = "idle" /\ ret'.ok = FALSE]_vars

----------------------------------------------------------------------------
(* Properties of usage recording *)

\* C12: every request through require_whitelisted_ip appends exactly one
\* usage record, whatever the outcome: success = False when the request is
\* refused as not whitelisted or as rate limited, success = True when it is
\* admitted, also when the handler raises.  Stated for requests during which
\* the database and the cache answer.
C12_OneUsageRecord ==
    [][\A ip \in ClientIPs :
          (resp'.n = resp.n + 1 /\ resp'.ip = ip /\ dbUp /\ ~CacheRaises
             /\ ~check_rate_limit_raises) =>
              /\ Len(usage_logs') = Len(usage_logs) + 1
              /\ usage_logs'[Len(usage_logs')].ip_address = ip
              /\ usage_logs'[Len(usage_logs')].success = resp'.handled]_vars

----------------------------------------------------------------------------
(* Properties of rate limiting without the cache *)

\* C13: without the cache (REDIS_AVAILABLE false), check_rate_limit of
\* IPWhitelistManager and of UltimateCustomerManager still enforces the limit:
\* a call that is number rate_limit + 1 or later for its address within 60
\* seconds is denied.
C13_LimitWithoutCache ==
    [][\A ip \in ClientIPs \cup UltClientIPs :
          (checked'.n = checked.n + 1 /\ checked'.ip = ip /\ ~REDIS_AVAILABLE
             /\ checked'.result # "raised"
             /\ called'[ip].k > checked'.limit) =>
              checked'.result = "denied"]_vars

----------------------------------------------------------------------------
(* Properties of cache failures *)

\* C14: an error raised by a cache command during admission is swallowed: it
\* does not reach the caller, and the request is decided as the database
\* alone decides it (admitted when the address has an active, unexpired row,
\* refused with 403 when it has none).
C14_CacheErrorsSwallowed ==
    [][\A ip \in ClientIPs :
          (resp'.n = resp.n + 1 /\ resp'.ip = ip /\ CacheRaises /\ dbUp) =>
              /\ DbHit(ip) => resp'.handled
              /\ ~DbHit(ip) => resp'.status = 403]_vars


\* C15: a failure writing the usage record never changes the response and
\* never raises: while the database cannot be written, a request refused by
\* the whitelist is still answered 403, one refused by the rate limit 429 and
\* one whose handler returns 200, and no record is added.
C15_LogFailureHarmless ==
    [][\A ip \in ClientIPs :
          (resp'.n = resp.n + 1 /\ resp'.ip = ip /\ ~dbUp /\ ~CacheRaises) =>
              LET r == is_ip_allowed(ip)
                  c == check_rate_limit(ip, r.rate_limit)
              IN /\ usage_logs' = usage_logs
                 /\ r.kind = "denied" => resp'.status = 403
                 /\ (r.kind = "allowed" /\ c = "denied") => resp'.status = 429
                 /\ (r.kind = "allowed" /\ c = "allowed"
                       /\ resp'.outcome = "returns") => resp'.status = 200]_vars

\* A request was served while its usage record could not be written.
C15_Witness ==
    /\ ~dbUp
    /\ resp.n > 0
    /\ resp.status = 200
    /\ usage_logs = <<>>


----------------------------------------------------------------------------
(* Properties of offboarding and reclamation *)

AllocationsOf(cid) ==
    {a \in DOMAIN resource_allocations : resource_allocations[a].customer_id = cid}

\* The pool rows an allocation was made from: same address and port range.
PoolRowsOf(a) ==
    {p \in DOMAIN resource_pools :
        /\ resource_pools[p].ip_address = resource_allocations[a].ip_address
        /\ resource_pools[p].port_start = resource_allocations[a].port_start
        /\ resource_pools[p].port_end = resource_allocations[a].port_end}

StatusOf(cid) == {c.status : c \in {d \in customers : d.customer_id = cid}}

\* C17: after cleanup_expired_customer(customer_id) has marked the customer
\* expired, every allocation of the customer is inactive, the pool entries of
\* those allocations are available again and the whitelist entries of their
\* addresses are deactivated.
C17_OffboardingReleasesAll ==
    [][\A cid \in 1 .. MaxCalls :
          (StatusOf(cid) = {"active"} /\ StatusOf(cid)' = {"expired"}) =>
              \A a \in AllocationsOf(cid) :
                  /\ ~resource_allocations'[a].is_active
                  /\ \A p \in PoolRowsOf(a) : resource_pools'[p].is_available
                  /\ \/ ip_whitelist'[resource_allocations[a].ip_address] = <<>>
                     \/ ~ip_whitelist'[resource_allocations[a].ip_address][1].is_active]_vars


\* An active allocation whose expires_at is not before the present.
Unexpired(a) ==
    /\ resource_allocations[a].is_active
    /\ ~(resource_allocations[a].expires_at < now)

\* C18: cleanup_expired_resources changes only what belongs to allocations
\* with expires_at < now: an unexpired active allocation stays active, its
\* pool entry keeps its availability flag and the whitelist entry of its
\* address is left as it was, also when an expired allocation has the same
\* ip_address.
C18_CleanupSparesUnexpired ==
    [][\A t \in Threads :
          (pc[t] = "cleanup" /\ pc'[t] = "idle") =>
              \A a \in DOMAIN resource_allocations :
                  Unexpired(a) =>
                      /\ resource_allocations'[a].is_active
                      /\ \A p \in PoolRowsOf(a) :
                            resource_pools'[p].is_available
                                = resource_pools[p].is_available
                      /\ ip_whitelist'[resource_allocations[a].ip_address]
                            = ip_whitelist[resource_allocations[a].ip_address]]_vars


----------------------------------------------------------------------------
(* Properties of the stored rows *)

\* C19: once a whitelist entry for an address exists it is never deleted, and
\* add_ip and remove_ip never change its customer_id, plan_type or
\* rate_limit: only is_active and expires_at are written.
C19_WhitelistIdentityKept ==
    [][\A ip \in AllIPs :
          ip_whitelist[ip] # <<>> =>
              /\ ip_whitelist'[ip] # <<>>
              /\ ip_whitelist'[ip][1].customer_id = ip_whitelist[ip][1].customer_id
              /\ ip_whitelist'[ip][1].plan_type = ip_whitelist[ip][1].plan_type
              /\ ip_whitelist'[ip][1].rate_limit = ip_whitelist[ip][1].rate_limit]_vars


\* C20: the set of resource_pools entries is fixed by the first
\* initialization: constructing a manager again adds no entry and resets no
\* availability flag, and no step changes anything of an entry but its
\* is_available.
C20_PoolFixedByFirstInit ==
    [][/\ Len(resource_pools') = Len(resource_pools)
       /\ \A p \in DOMAIN resource_pools :
             [resource_pools'[p] EXCEPT !.is_available = resource_pools[p].is_available]
                 = resource_pools[p]
       /\ managers' # managers => resource_pools' = resource_pools]_vars


----------------------------------------------------------------------------
(* Properties of concurrent rate limiting *)

\* C16: on the database path, concurrent check_rate_limit calls for one
\* address behave as if run one at a time: no call fails on another call's
\* first row of a window, each call compares the counter value its own write
\* left in the table (so no two compare the same value), and a call is
\* allowed only while the calls of the window are at most rate_limit.
C16_RateLimitLinearizable ==
    [][\A t \in Threads :
          (pc[t] = "rate_limit" /\ pc'[t] = "idle" /\ dbUp) =>
              /\ checked'.result # "raised"
              /\ rate_limits'[loc[t].ip][1].requests_count = count(t)
              /\ checked'.result = "allowed" =>
                    called'[loc[t].ip].k <= loc[t].limit]_vars


\* C21: on the cache path the increment and the arming of the window's expiry
\* act as one step: whenever no call is between its two cache commands, a
\* rate_limit key that exists has an expiry, so a counter that has passed the
\* limit goes away when its window ends.
C21_CounterHasExpiry ==
    (\A t \in Threads : pc[t] = "idle") =>
        \A ip \in ClientIPs :
            redis_rate[ip] # <<>> => redis_rate[ip][1].ttl # NoExpiry


----------------------------------------------------------------------------
(* Properties of cache staleness *)

\* C22: once remove_ip has deactivated the row of an address, a call of
\* is_ip_allowed for it returns Allowed only from a cache entry and only
\* before one cache_timeout has passed since the removal, also when a call
\* that read the row before the removal wrote its cache entry after it; from
\* then on a call that returns returns Denied.
C22_StalenessBounded ==
    \A ip \in ClientIPs :
        removed_at[ip] # NoRemoval =>
            /\ is_ip_allowed(ip).kind = "allowed" =>
                  /\ CacheHit(ip)
                  /\ now < removed_at[ip] + cache_timeout
            /\ (now >= removed_at[ip] + cache_timeout /\ ~CacheRaises) =>
                  is_ip_allowed(ip).kind = "denied"


----------------------------------------------------------------------------
(* Properties of the API key path *)

\* The request of the step was handled by require_api_key on route r and
\* reached check_rate_limit.
RateCheckedOn(r) ==
    /\ api_resp'.n = api_resp.n + 1
    /\ api_resp'.endpoint = r.endpoint
    /\ api_checked'.n = api_checked.n + 1

\* C23: for a request handled by require_api_key, the per-minute limit that
\* check_rate_limit applies is the rate_limit_override of the endpoint's
\* active api_endpoints row when it has one, and the default of the
\* customer's plan on every other endpoint.
C23_OverrideTakesPrecedence ==
    [][\A r \in Routes :
          (RateCheckedOn(r) /\ api_checked'.result.limit # 0) =>
              api_checked'.result.limit =
                  IF /\ api_endpoints[r.path].is_active
                     /\ api_endpoints[r.path].rate_limit_override # 0
                  THEN api_endpoints[r.path].rate_limit_override
                  ELSE per_minute(api_checked'.plan_type)]_vars


\* The calls of the present one-minute window that the stored row counts.
ApiCounted(key) ==
    IF api_rate_limits[key] = <<>> THEN 0 ELSE api_requests_count(key)

\* C27: APIManager.check_rate_limit admits exactly L calls per one-minute
\* window for a key whose per-minute limit is L: a call is admitted while
\* fewer than L calls of the window are counted, the key's first call (no
\* row yet) included, which stores count 1 and reports remaining_minute =
\* L - 1; any further call is denied, and a denied call leaves the stored
\* counters unchanged.
C27_ExactlyLPerWindow ==
    [][\A e \in DirectEndpoints :
          (api_checked'.n = api_checked.n + 1 /\ api_checked'.endpoint = e) =>
              LET L == limits_per_minute(e, api_checked'.plan_type)
                  key == api_checked'.api_key
              IN /\ api_checked'.result.ok = (ApiCounted(key) < L)
                 /\ api_rate_limits[key] = <<>> =>
                       /\ api_rate_limits'[key][1].requests_count = 1
                       /\ api_checked'.result.remaining = L - 1
                 /\ ~api_checked'.result.ok => api_rate_limits' = api_rate_limits]_vars


\* basic < premium < enterprise, as the specification orders the plans.
PlanOrder == <<"basic", "premium", "enterprise">>

PlanRank(plan) == CHOOSE i \in 1..3 : PlanOrder[i] = plan

\* C29: require_api_key(required_plan) runs the handler only if a key was
\* supplied, validate_api_key accepts it, the customer's plan is at least the
\* required plan, and check_rate_limit, called last, allows the call; a
\* request answered 401 or 403 calls no check_rate_limit and leaves the
\* rate-limit rows unchanged.
C29_HandlerOnlyAfterAllChecks ==
    [][\A r \in Routes :
          (api_resp'.n = api_resp.n + 1 /\ api_resp'.endpoint = r.endpoint) =>
              /\ api_resp'.handled =>
                    /\ api_resp'.api_key # ""
                    /\ validate_api_key(api_resp'.api_key)
                    /\ PlanRank(plan_type_of(api_resp'.api_key)) >=
                           PlanRank(r.required_plan)
                    /\ api_checked'.n = api_checked.n + 1
                    /\ api_checked'.api_key = api_resp'.api_key
                    /\ api_checked'.result.ok
              /\ api_resp'.status \in {401, 403} =>
                    /\ api_rate_limits' = api_rate_limits
                    /\ api_checked' = api_checked]_vars

\* An enterprise customer's request to the enterprise-only route was handled
\* after an admitting rate-limit check.
C29_Witness ==
    /\ api_resp.handled
    /\ api_resp.endpoint = "api_batch"
    /\ api_checked.result.ok
    /\ api_checked.endpoint = "api_batch"


\* C24: no two simultaneously active allocations made by create_customer
\* have the same ip_address, and the whitelist row of an actively allocated
\* address names the customer who holds that allocation.
C24_AllocatedAddressesDistinct ==
    \A a, b \in DOMAIN resource_allocations :
        (/\ resource_allocations[a].is_active
         /\ resource_allocations[b].is_active
         /\ resource_allocations[a].ip_address = resource_allocations[b].ip_address)
            => a = b


\* C25: a create_customer call that fails leaves every store as it was: the
\* step in which the call returns failure changes none of customers,
\* resource_pools, resource_allocations, the durable whitelist and the
\* whitelist cache, so that no whitelist row is left for an address the
\* call did not allocate.
C25_FailedCreateChangesNothing ==
    [][\A t \in Threads :
          (/\ app = "proxy"
           /\ pc[t] \in {"insert", "allocate", "add_ip"}
           /\ pc'[t] = "idle"
           /\ ~ret'.ok) =>
              /\ customers' = customers
              /\ resource_pools' = resource_pools
              /\ resource_allocations' = resource_allocations
              /\ ip_whitelist' = ip_whitelist
              /\ redis_whitelist' = redis_whitelist]_vars


\* C26: on a freshly seeded pool the first create_customer call is
\* allocated a resource, whichever of the plans basic, premium and
\* enterprise it asks for.
C26_FirstCustomerGetsResource ==
    [][\A t \in Threads :
          (/\ app = "proxy"
           /\ resource_pools = init_resource_pools(<<>>)
           /\ resource_allocations = <<>>
           /\ pc[t] = "allocate"
           /\ pc'[t] # "allocate") =>
              /\ pc'[t] = "add_ip"
              /\ loc'[t].pool \in DOMAIN resource_pools]_vars


\* The answer of is_ip_allowed for a request from ip is not "allowed",
\* whichever row the Ultimate application's query returns first.
NotAllowed(ip) ==
    IF app = "proxy" THEN is_ip_allowed(ip).kind # "allowed"
    ELSE \A a \in ult_first_allocation(ip) :
            ult_is_ip_allowed(ip, a).kind # "allowed"

\* C28: the whitelist check precedes the rate limiter: for a request whose
\* is_ip_allowed result is not allowed, require_whitelisted_ip does not call
\* check_rate_limit, and the rate counter and window of the address are
\* left unchanged.
C28_WhitelistBeforeRateLimit ==
    [][\A ip \in ClientIPs \cup UltClientIPs :
          (resp'.n = resp.n + 1 /\ resp'.ip = ip /\ NotAllowed(ip)) =>
              /\ checked' = checked
              /\ called' = called
              /\ redis_rate' = redis_rate
              /\ rate_limits' = rate_limits]_vars

\* A request was refused as not whitelisted after an earlier request from
\* the same address had been counted by the rate limiter.
C28_Witness ==
    /\ resp.status = 403
    /\ checked.n > 0
    /\ checked.ip = resp.ip
    /\ called[resp.ip].k > 0


\* The recorded steps of event e are the first steps of the list, in its
\* order; a failed step is the last one recorded and the event is then
\* failed; an event is completed only with all seven steps completed.
FlowRecordedInOrder(e) ==
    /\ Len(onboarding_steps[e]) <= Len(Steps)
    /\ \A k \in DOMAIN onboarding_steps[e] :
          /\ onboarding_steps[e][k].step_name = Steps[k]
          /\ onboarding_steps[e][k].step_status \in {"completed", "failed"}
          /\ onboarding_steps[e][k].step_status = "failed" =>
                /\ k = Len(onboarding_steps[e])
                /\ onboarding_events[e][1].onboarding_status = "failed"
    /\ (/\ onboarding_events[e] # <<>>
        /\ onboarding_events[e][1].onboarding_status = "completed") =>
          /\ Len(onboarding_steps[e]) = Len(Steps)
          /\ \A k \in DOMAIN onboarding_steps[e] :
                onboarding_steps[e][k].step_status = "completed"

\* C30: _execute_onboarding_flow runs the seven steps in the fixed order
\* validate_payment, create_customer, allocate_resources,
\* configure_whitelist, setup_monitoring, send_welcome_email, notify_admin;
\* the event becomes 'completed' only if every step completed; at the first
\* failing step that step is recorded 'failed', no later step starts, and
\* the event ends 'failed' and never becomes 'completed'.
C30_OnboardingStepsInOrder ==
    [][\A e \in Events :
          /\ FlowRecordedInOrder(e)'
          /\ (/\ onboarding_events[e] # <<>>
              /\ onboarding_events[e][1].onboarding_status = "failed") =>
                /\ onboarding_events'[e] = onboarding_events[e]
                /\ onboarding_steps'[e] = onboarding_steps[e]]_vars

\* A flow failed at its fifth step, after four completed steps, and is over.
C30_Witness ==
    \E e \in Events :
        /\ flow[e] = FlowDone
        /\ Len(onboarding_steps[e]) = 5
        /\ onboarding_steps[e][4].step_status = "completed"
        /\ onboarding_steps[e][5].step_status = "failed"
        /\ onboarding_events[e][1].onboarding_status = "failed"

====
